---- MODULE Spec2Model ----
(***************************************************************************)
(* A model of SplitMongoModuleStore (split_mongo/split.py): the versioned  *)
(* store of course structures.  The three collections of the document      *)
(* store are the variables indexes, structures and definitions.  Every     *)
(* public operation is a sequence of steps, one per document-store call;   *)
(* the local computation between two calls belongs to the step of the call *)
(* that follows it.  proc[w] holds the position and the local variables of *)
(* the request that writer w is running.                                   *)
(*                                                                         *)
(* Left out: edited_by / edited_on (timestamps and user ids), org and      *)
(* prettyid of an index, the descriptor objects built by the runtime.      *)
(* Block ids contain neither '.' nor '$', so that encode_key_for_mongo     *)
(* leaves them as they are.  A block id is a pair <<name, serial>>: the    *)
(* string name + str(serial), serial 0 standing for no digits.  A package  *)
(* id is such a pair too.                                                  *)
(***************************************************************************)
EXTENDS Integers, Sequences, FiniteSets, TLC

VARIABLES indexes, structures, definitions, lastSid, lastDid, proc, ops

vars == <<indexes, structures, definitions, lastSid, lastDid, proc, ops>>

(* ------------------------------ bounds -------------------------------- *)

\* Requests started in one run of the sequential specification.
MaxOps == 3

\* Requests started in one run of the two-writer specification.
MaxConcOps == 2

(* --------------------------- values and ids --------------------------- *)

\* Python's None, for ids (ObjectIds are the positive integers).
None == 0

\* None for a package id, a block id, a branch.
NoName == <<"", 0>>

NoBranch == ""

Branches == {"draft", "published"}

\* An ObjectId a caller can hold that names no stored document.
BogusId == MaxOps + MaxConcOps + 1

EmptyDict == [k \in {} |-> 0]

\* The result of a find_one that matches nothing.
Missing == [missing |-> TRUE]

IsMissing(doc) == "missing" \in DOMAIN doc

\* What a computation over the blocks ends with: the blocks, or the error
\* it raised.
Failed(kind) == [error |-> kind, blocks |-> EmptyDict]

Done(blocks) == [error |-> "", blocks |-> blocks]

IsFailed(r) == r.error # ""

\* dict.update: the entries of e replace those of d.
DictUpdate(d, e) == e @@ d

DictRemove(d, k) == [x \in DOMAIN d \ {k} |-> d[x]]

DictPut(d, k, v) == (k :> v) @@ d

SeqToSet(s) == {s[i] : i \in DOMAIN s}

\* Whether the block class of a category has children (has_children).
HasChildren(category) == category \in {"course", "chapter"}

Writers == {1, 2}

(* ------------------------- the document store ------------------------- *)

get_course_index(package_id) ==
    IF package_id \in DOMAIN indexes THEN indexes[package_id] ELSE Missing

get_structure(key) ==
    IF key \in DOMAIN structures THEN structures[key] ELSE Missing

get_definition(key) ==
    IF key \in DOMAIN definitions THEN definitions[key] ELSE Missing

(* --------------------------- pure helpers ----------------------------- *)

_filter_special_fields(fields) ==
    [k \in DOMAIN fields \ {"location", "category"} |-> fields[k]]

_new_block(category, block_fields, definition_id, new_id) ==
    [category |-> category,
     definition |-> definition_id,
     fields |-> block_fields,
     edit_info |-> [previous_version |-> None, update_version |-> new_id]]

\* root_category = "" stands for root_category=None (the call of xblock_publish).
_new_structure(new_id, root_block_id, root_category, block_fields, definition_id) ==
    [_id |-> new_id,
     root |-> root_block_id,
     previous_version |-> None,
     original_version |-> new_id,
     blocks |-> IF root_category # ""
                THEN (root_block_id :>
                        _new_block(root_category, block_fields, definition_id, new_id))
                ELSE EmptyDict]

\* A copy that starts a history of its own instead of continuing the one
\* it was copied from.
VersionStructureAsOrigin(structure, new_id) ==
    [structure EXCEPT !._id = new_id, !.previous_version = structure._id,
                      !.original_version = new_id]

\* A copy that keeps no block but the root.
VersionStructureRootOnly(structure, new_id) ==
    [structure EXCEPT !._id = new_id, !.previous_version = structure._id,
                      !.blocks = [b \in {structure.root} \cap DOMAIN structure.blocks |->
                                     structure.blocks[b]]]

\* A deep copy with a new _id, the copied structure as its predecessor.
_version_structure(structure, new_id) ==
    [structure EXCEPT !._id = new_id, !.previous_version = structure._id]

_get_block_from_structure(structure, block_id) ==
    IF block_id \in DOMAIN structure.blocks THEN structure.blocks[block_id] ELSE Missing

\* The children list of a block's fields, [] when the key is absent:
\* fields.get('children', []).
ChildrenOrEmpty(fields) ==
    IF "children" \in DOMAIN fields THEN fields["children"] ELSE <<>>

\* The ids of the blocks that list block_id among their children.
ParentsIn(block_id, blocks) ==
    {parent_id \in DOMAIN blocks :
        block_id \in SeqToSet(ChildrenOrEmpty(blocks[parent_id].fields))}

\* How many times x occurs in seq.
Occurrences(seq, x) == Cardinality({i \in DOMAIN seq : seq[i] = x})

\* The parents as the scan lists them: a parent once for each time it
\* lists block_id among its children.
_get_parents_from_structure(block_id, structure) ==
    [parent_id \in ParentsIn(block_id, structure.blocks) |->
        Occurrences(ChildrenOrEmpty(structure.blocks[parent_id].fields), block_id)]

\* category + str(serial) for the lowest serial >= 1 not yet a key.
_generate_block_id(course_blocks, category) ==
    LET taken(n) == <<category, n>> \in DOMAIN course_blocks
        serial == CHOOSE n \in 1..(Cardinality(DOMAIN course_blocks) + 1) :
                     /\ ~taken(n)
                     /\ \A m \in 1..(n - 1) : taken(m)
    IN <<category, serial>>

\* True when the settings differ from the stored fields (children aside).
_compare_settings(settings, original_fields) ==
    LET original_keys == DOMAIN original_fields \ {"children"}
    IN IF Cardinality(DOMAIN settings) # Cardinality(original_keys)
       THEN TRUE
       ELSE \E key \in original_keys :
               key \notin DOMAIN settings \/ original_fields[key] # settings[key]

\* needs_saved of update_definition_from_data.
needs_saved(new_def_data, old_definition) ==
    \/ \E key \in DOMAIN new_def_data :
          key \notin DOMAIN old_definition.fields
             \/ new_def_data[key] # old_definition.fields[key]
    \/ \E key \in DOMAIN old_definition.fields : key \notin DOMAIN new_def_data

\* The package id for id_root: id_root itself when no index id contains
\* it, else id_root + str(1 + the largest serial found after it).
_generate_package_id(id_root) ==
    LET existing_uses == {p \in DOMAIN indexes : p[1] = id_root}
        serials == {p[2] : p \in existing_uses} \cup {0}
        max_found == CHOOSE n \in serials : \A m \in serials : m <= n
    IN IF existing_uses # {} THEN <<id_root, max_found + 1>> ELSE <<id_root, 0>>

(* ------------------------ a request's record -------------------------- *)

Idle == [pc |-> "idle"]

DbSnapshot == [indexes |-> indexes, structures |-> structures, definitions |-> definitions]

NoOut == [kind |-> "", head |-> None, id |-> None]

\* The locals of a request at its first step.
NewProc(op, args, pc, lk, todo) ==
    [pc |-> pc, op |-> op, args |-> args, pre |-> DbSnapshot,
     lk |-> lk, todo |-> todo,
     guid |-> None, entry |-> Missing, structure |-> Missing,
     index_entry |-> Missing, defloc |-> None, is_updated |-> FALSE,
     old_definition |-> Missing, versions_dict |-> EmptyDict, package_id |-> NoName,
     child_definition |-> None, new_structure |-> Missing, out |-> NoOut]

Locator(package_id, branch, version_guid, block_id) ==
    [package_id |-> package_id, branch |-> branch,
     version_guid |-> version_guid, block_id |-> block_id]

\* The request of w ends: it returns (kind "ok") or raises (the error's name).
Finish(w, kind, head, id) ==
    proc' = [proc EXCEPT ![w].pc = "done",
                         ![w].out = [kind |-> kind, head |-> head, id |-> id]]

\* has_item catches the ItemNotFoundError of its lookup and answers False.
Raise(w, kind) ==
    IF proc[w].op = "has_item" /\ kind = "ItemNotFoundError"
    THEN Finish(w, "False", None, None)
    ELSE Finish(w, kind, None, None)

\* The request goes on with the next step of its agenda.
Pop(p) == [p EXCEPT !.pc = Head(p.todo), !.todo = Tail(p.todo)]

DbUnchanged == UNCHANGED <<indexes, structures, definitions, lastSid, lastDid>>

(* --------------- the document store's writes (per document) ----------- *)

insert_definition(doc) == definitions' = DictPut(definitions, doc._id, doc)

\* An insert that overwrites every stored structure with the new one.
InsertOverAll(doc) == structures' = [s \in DOMAIN structures \cup {doc._id} |-> doc]

insert_structure(doc) == structures' = DictPut(structures, doc._id, doc)

\* An update that stores nothing.
UpdateStructureDropped(doc) == structures' = structures

\* Replaces the stored document of the same _id; nothing when there is none.
update_structure(doc) ==
    structures' = IF doc._id \in DOMAIN structures
                  THEN [structures EXCEPT ![doc._id] = doc]
                  ELSE structures

update_course_index(doc) ==
    indexes' = IF doc._id \in DOMAIN indexes
               THEN [indexes EXCEPT ![doc._id] = doc]
               ELSE indexes

\* An insert that stores the entry with every branch at structure 1.
InsertIndexAtOldest(doc) ==
    indexes' = DictPut(indexes, doc._id,
                       [doc EXCEPT !.versions = [b \in DOMAIN doc.versions |-> 1]])

insert_course_index(doc) == indexes' = DictPut(indexes, doc._id, doc)

\* A delete that removes every index entry.
DeleteEveryIndex(key) == indexes' = EmptyDict

delete_course_index(key) == indexes' = DictRemove(indexes, key)

(* ------------------------- _lookup_course ----------------------------- *)

is_fully_specified(lk) == lk.package_id # NoName \/ lk.version_guid # None

\* A conflict that reports the version the caller asked for.
ConflictAtRequested(index, lk) == lk.version_guid

\* The version a VersionConflictError of _lookup_course carries: the head
\* of the branch as just read.
ConflictHead(index, lk) == index.versions[lk.branch]

\* First half of _lookup_course: the read of the index and its checks.
LookupIndex(w) ==
    /\ proc[w].pc = "lookup_index"
    /\ DbUnchanged
    /\ UNCHANGED ops
    /\ LET lk == proc[w].lk
           index == get_course_index(lk.package_id)
       IN IF ~is_fully_specified(lk)
          THEN Raise(w, "InsufficientSpecificationError")
          ELSE IF lk.package_id # NoName /\ lk.branch # NoBranch
          THEN IF IsMissing(index)
               THEN Raise(w, "ItemNotFoundError")
               ELSE IF lk.branch \notin DOMAIN index.versions
               THEN Raise(w, "ItemNotFoundError")
               ELSE IF /\ lk.version_guid # None
                       /\ index.versions[lk.branch] # lk.version_guid
               THEN Finish(w, "VersionConflictError", ConflictHead(index, lk), None)
               ELSE proc' = [proc EXCEPT ![w].pc = "lookup_structure",
                                         ![w].guid = index.versions[lk.branch]]
          ELSE proc' = [proc EXCEPT ![w].pc = "lookup_structure",
                                    ![w].guid = lk.version_guid]

\* Second half of _lookup_course: the read of the structure (None when
\* no structure has that id).
LookupStructure(w) ==
    /\ proc[w].pc = "lookup_structure"
    /\ DbUnchanged
    /\ UNCHANGED ops
    /\ proc' = [proc EXCEPT ![w] = [Pop(@) EXCEPT !.entry = get_structure(proc[w].guid)]]

(* ----------------------- _get_index_if_valid -------------------------- *)

\* The read of the index for a write, and whether the write may move the
\* head.  (delete_item checks, before this read, that the block is not the
\* root of the structure it looked up.)
IndexIfValid(w) ==
    /\ proc[w].pc = "index_if_valid"
    /\ DbUnchanged
    /\ UNCHANGED ops
    /\ LET locator == proc[w].args.locator
           force == proc[w].args.force
           continue_version == proc[w].args.continue_version
           index_entry == get_course_index(locator.package_id)
       IN IF proc[w].op = "delete_item" /\ IsMissing(proc[w].entry)
          THEN Raise(w, "TypeError")
          ELSE IF proc[w].op = "delete_item" /\ proc[w].entry.root = locator.block_id
          THEN Raise(w, "ValueError")
          ELSE IF locator.package_id = NoName \/ locator.branch = NoBranch
          THEN IF continue_version
               THEN Raise(w, "InsufficientSpecificationError")
               ELSE proc' = [proc EXCEPT ![w] = [Pop(@) EXCEPT !.index_entry = Missing,
                                                             !.structure = proc[w].entry]]
          ELSE IF IsMissing(index_entry)
          THEN Raise(w, "TypeError")
          ELSE IF locator.version_guid # None /\ locator.branch \notin DOMAIN index_entry.versions
          THEN Raise(w, "KeyError")
          ELSE LET is_head == \/ locator.version_guid = None
                              \/ index_entry.versions[locator.branch] = locator.version_guid
               IN IF is_head \/ (force /\ ~continue_version)
                  THEN proc' = [proc EXCEPT ![w] = [Pop(@) EXCEPT !.index_entry = index_entry,
                                                                !.structure = proc[w].entry]]
                  ELSE Finish(w, "VersionConflictError",
                              index_entry.versions[locator.branch], None)

(* ---------- create_definition_from_data, update_definition_from_data -- *)

\* create_definition_from_data: a new definition without a predecessor.
CreateDefinition(w) ==
    /\ proc[w].pc = "create_definition"
    /\ LET new_id == lastDid + 1
           document == [_id |-> new_id,
                        category |-> proc[w].args.category,
                        fields |-> _filter_special_fields(proc[w].args.content),
                        edit_info |-> [previous_version |-> None,
                                       original_version |-> new_id]]
       IN /\ insert_definition(document)
          /\ lastDid' = new_id
          /\ proc' = [proc EXCEPT ![w] = [Pop(@) EXCEPT !.defloc = new_id]]
    /\ UNCHANGED <<indexes, structures, lastSid, ops>>

\* update_definition_from_data, the read: raises when the definition is not
\* stored, and decides whether a new version is needed.
GetDefinition(w) ==
    /\ proc[w].pc = "get_definition"
    /\ DbUnchanged
    /\ UNCHANGED ops
    /\ LET old_definition == get_definition(proc[w].defloc)
           new_def_data == _filter_special_fields(proc[w].args.content)
       IN IF IsMissing(old_definition)
          THEN Raise(w, "ItemNotFoundError")
          ELSE IF needs_saved(new_def_data, old_definition)
          THEN proc' = [proc EXCEPT ![w].pc = "insert_definition",
                                    ![w].old_definition = old_definition]
          ELSE proc' = [proc EXCEPT ![w] = [Pop(@) EXCEPT !.is_updated = FALSE]]

\* A new version that starts a history of its own.
NewDefinitionAsOriginal(old_definition, new_id, new_def_data) ==
    [old_definition EXCEPT !._id = new_id,
                           !.fields = new_def_data,
                           !.edit_info.previous_version = old_definition._id,
                           !.edit_info.original_version = new_id]

\* The new version of a definition: the fields and the _id replaced, the
\* original_version kept.
NewDefinitionVersion(old_definition, new_id, new_def_data) ==
    [old_definition EXCEPT !._id = new_id,
                           !.fields = new_def_data,
                           !.edit_info.previous_version = old_definition._id]

\* update_definition_from_data, the write of the new version.
InsertDefinition(w) ==
    /\ proc[w].pc = "insert_definition"
    /\ LET new_id == lastDid + 1
           document == NewDefinitionVersion(proc[w].old_definition, new_id,
                                            _filter_special_fields(proc[w].args.content))
       IN /\ insert_definition(document)
          /\ lastDid' = new_id
          /\ proc' = [proc EXCEPT ![w] = [Pop(@) EXCEPT !.defloc = new_id,
                                                        !.is_updated = TRUE]]
    /\ UNCHANGED <<indexes, structures, lastSid, ops>>

(* ---------------------------- _update_head ---------------------------- *)

HeadBranch(p) ==
    IF p.op = "xblock_publish" THEN p.args.destination.branch ELSE p.args.locator.branch

\* A write of the entry that leaves the branch where it was.
UpdateHeadInPlace(index_entry, branch, new_id) == update_course_index(index_entry)

\* index_entry['versions'][branch] = new_id, and the whole entry, as it
\* was read at the start of the request, written back.
_update_head(index_entry, branch, new_id) ==
    update_course_index([index_entry EXCEPT !.versions = DictPut(@, branch, new_id)])

\* The operations that end with get_item on what they wrote.
ReturnsItem(op) == op \in {"create_item", "update_item", "persist_xblock_dag"}

\* The request goes on to fetch the item at version new_id.
ThenGetItem(p, new_structure) ==
    [p EXCEPT !.pc = "lookup_index", !.todo = <<"return_item">>,
              !.lk = [p.args.locator EXCEPT !.version_guid = new_structure._id],
              !.new_structure = new_structure]

UpdateHead(w) ==
    /\ proc[w].pc = "update_head"
    /\ _update_head(proc[w].index_entry, HeadBranch(proc[w]), proc[w].new_structure._id)
    /\ IF ReturnsItem(proc[w].op)
       THEN proc' = [proc EXCEPT ![w] = ThenGetItem(@, proc[w].new_structure)]
       ELSE Finish(w, "ok", None, proc[w].new_structure._id)
    /\ UNCHANGED <<structures, definitions, lastSid, lastDid, ops>>

\* The end of get_item on what the request wrote.
ReturnItem(w) ==
    /\ proc[w].pc = "return_item"
    /\ DbUnchanged
    /\ UNCHANGED ops
    /\ IF IsMissing(proc[w].entry)
       THEN Raise(w, "TypeError")
       ELSE Finish(w, "ok", None, proc[w].new_structure._id)

(* --------------------------- create_course ---------------------------- *)

ContentChoices == {EmptyDict, "data" :> 2}

SettingsChoices == {EmptyDict, "display_name" :> 2}

\* The versions_dict arguments tried: the versions of a stored index, one
\* branch at a stored structure, one branch at an id that names nothing.
VersionsDictChoices ==
    {indexes[p].versions : p \in DOMAIN indexes}
      \cup {"draft" :> s : s \in DOMAIN structures \cup {BogusId}}
      \cup {"published" :> s : s \in DOMAIN structures}

\* create_course(org, prettyid, user_id, id_root, fields, master_branch,
\* versions_dict, root_category, root_block_id): the defaults but for the
\* fields (given by scope) and versions_dict.
StartCreateCourse(w, content, settings, given, versions_dict) ==
    LET args == [content |-> content, settings |-> settings,
                 master_branch |-> "draft",
                 has_versions_dict |-> given, versions_dict |-> versions_dict,
                 id_root |-> "org", category |-> "course",
                 root_block_id |-> <<"course", 0>>]
        fresh == ~given \/ "draft" \notin DOMAIN versions_dict
        overrides == _filter_special_fields(content) # EmptyDict
                        \/ settings # EmptyDict
        agenda == IF fresh
                  THEN <<"cc_insert_definition", "cc_insert_structure",
                         "cc_generate_id">>
                  ELSE IF overrides
                  THEN <<"lookup_index", "cc_get_definition",
                         "cc_clone_definition", "cc_clone_structure",
                         "cc_generate_id">>
                  ELSE <<"lookup_index", "cc_generate_id">>
        lk == IF fresh THEN Locator(NoName, NoBranch, None, NoName)
              ELSE Locator(NoName, NoBranch, versions_dict["draft"], NoName)
    IN proc' = [proc EXCEPT ![w] =
                  [NewProc("create_course", args, Head(agenda), lk, Tail(agenda))
                     EXCEPT !.versions_dict = versions_dict]]

CallCreateCourse(w) ==
    /\ proc[w].pc \in {"idle", "done"}
    /\ \E content \in ContentChoices, settings \in SettingsChoices,
          given \in BOOLEAN :
          \E versions_dict \in IF given THEN VersionsDictChoices ELSE {EmptyDict} :
             StartCreateCourse(w, content, settings, given, versions_dict)
    /\ DbUnchanged

\* Fresh course: the definition of the root.
CC_InsertDefinition(w) ==
    /\ proc[w].pc = "cc_insert_definition"
    /\ LET definition_id == lastDid + 1
           definition_entry == [_id |-> definition_id,
                                category |-> proc[w].args.category,
                                fields |-> _filter_special_fields(proc[w].args.content),
                                edit_info |-> [previous_version |-> None,
                                               original_version |-> definition_id]]
       IN /\ insert_definition(definition_entry)
          /\ lastDid' = definition_id
          /\ proc' = [proc EXCEPT ![w] = [Pop(@) EXCEPT !.defloc = definition_id]]
    /\ UNCHANGED <<indexes, structures, lastSid, ops>>

\* Fresh course: the structure with the root as its only block.
CC_InsertStructure(w) ==
    /\ proc[w].pc = "cc_insert_structure"
    /\ LET new_id == lastSid + 1
           draft_structure == _new_structure(new_id, proc[w].args.root_block_id,
                                             proc[w].args.category,
                                             proc[w].args.settings, proc[w].defloc)
       IN /\ insert_structure(draft_structure)
          /\ lastSid' = new_id
          /\ proc' = [proc EXCEPT ![w] =
                        [Pop(@) EXCEPT !.versions_dict =
                                          DictPut(@, proc[w].args.master_branch, new_id),
                                       !.new_structure = draft_structure]]
    /\ UNCHANGED <<indexes, definitions, lastDid, ops>>

\* Clone with overrides: the structure is versioned (a TypeError when the
\* given version names nothing), the root's definition read.
CC_GetDefinition(w) ==
    /\ proc[w].pc = "cc_get_definition"
    /\ DbUnchanged
    /\ UNCHANGED ops
    /\ LET draft_structure == proc[w].entry
       IN IF IsMissing(draft_structure)
          THEN Raise(w, "TypeError")
          ELSE IF draft_structure.root \notin DOMAIN draft_structure.blocks
          THEN Raise(w, "KeyError")
          ELSE LET definition ==
                      get_definition(draft_structure.blocks[draft_structure.root].definition)
               IN IF IsMissing(definition)
                  THEN Raise(w, "TypeError")
                  ELSE proc' = [proc EXCEPT ![w] = [Pop(@) EXCEPT !.old_definition = definition]]

\* Clone with overrides: a new version of the root's definition, written
\* whether or not content fields were given (definition_fields is never None).
CC_CloneDefinition(w) ==
    /\ proc[w].pc = "cc_clone_definition"
    /\ LET definition == proc[w].old_definition
           new_id == lastDid + 1
           document == NewDefinitionVersion(definition, new_id,
                          DictUpdate(definition.fields,
                                     _filter_special_fields(proc[w].args.content)))
       IN /\ insert_definition(document)
          /\ lastDid' = new_id
          /\ proc' = [proc EXCEPT ![w] = [Pop(@) EXCEPT !.defloc = new_id]]
    /\ UNCHANGED <<indexes, structures, lastSid, ops>>

\* The root block of a clone with overrides.
CloneRootBlock(root_block, block_fields, definition_id, new_id) ==
    [root_block EXCEPT !.fields = DictUpdate(@, block_fields),
                       !.definition = definition_id,
                       !.edit_info = [previous_version |-> @.update_version,
                                      update_version |-> new_id]]

\* Clone with overrides: the new version of the structure.
CC_CloneStructure(w) ==
    /\ proc[w].pc = "cc_clone_structure"
    /\ LET new_id == lastSid + 1
           versioned == _version_structure(proc[w].entry, new_id)
           draft_structure ==
              [versioned EXCEPT !.blocks[versioned.root] =
                   CloneRootBlock(@, proc[w].args.settings, proc[w].defloc, new_id)]
       IN /\ insert_structure(draft_structure)
          /\ lastSid' = new_id
          /\ proc' = [proc EXCEPT ![w] =
                        [Pop(@) EXCEPT !.versions_dict =
                                          DictPut(@, proc[w].args.master_branch, new_id),
                                       !.new_structure = draft_structure]]
    /\ UNCHANGED <<indexes, definitions, lastDid, ops>>

\* _generate_package_id: the read of the index ids in use.
CC_GenerateId(w) ==
    /\ proc[w].pc = "cc_generate_id"
    /\ DbUnchanged
    /\ UNCHANGED ops
    /\ proc' = [proc EXCEPT ![w].pc = "cc_insert_index",
                            ![w].package_id = _generate_package_id(proc[w].args.id_root)]

\* The index entry, with the versions_dict as it stands.
CC_InsertIndex(w) ==
    /\ proc[w].pc = "cc_insert_index"
    /\ LET new_id == proc[w].package_id
           index_entry == [_id |-> new_id, versions |-> proc[w].versions_dict]
       IN IF new_id \in DOMAIN indexes
          THEN /\ Raise(w, "DuplicateKeyError")
               /\ UNCHANGED indexes
          ELSE /\ insert_course_index(index_entry)
               /\ proc' = [proc EXCEPT ![w].pc = "lookup_index",
                                       ![w].todo = <<"cc_return">>,
                                       ![w].lk = Locator(new_id, proc[w].args.master_branch,
                                                         None, NoName)]
    /\ UNCHANGED <<structures, definitions, lastSid, lastDid, ops>>

\* get_course of the new course: course_entry['structure']['root'].
CC_Return(w) ==
    /\ proc[w].pc = "cc_return"
    /\ DbUnchanged
    /\ UNCHANGED ops
    /\ IF IsMissing(proc[w].entry)
       THEN Raise(w, "TypeError")
       ELSE Finish(w, "ok", None, proc[w].entry._id)

(* --------------------------- delete_course ---------------------------- *)

StartDeleteCourse(w, package_id) ==
    proc' = [proc EXCEPT ![w] =
               NewProc("delete_course", [package_id |-> package_id],
                       "dc_get_index", Locator(NoName, NoBranch, None, NoName), <<>>)]

CallDeleteCourse(w) ==
    /\ proc[w].pc \in {"idle", "done"}
    /\ \E package_id \in DOMAIN indexes : StartDeleteCourse(w, package_id)
    /\ DbUnchanged

DC_GetIndex(w) ==
    /\ proc[w].pc = "dc_get_index"
    /\ DbUnchanged
    /\ UNCHANGED ops
    /\ LET index == get_course_index(proc[w].args.package_id)
       IN IF IsMissing(index)
          THEN Raise(w, "ItemNotFoundError")
          ELSE proc' = [proc EXCEPT ![w].pc = "dc_delete_index", ![w].index_entry = index]

DC_DeleteIndex(w) ==
    /\ proc[w].pc = "dc_delete_index"
    /\ delete_course_index(proc[w].index_entry._id)
    /\ Finish(w, "ok", None, None)
    /\ UNCHANGED <<structures, definitions, lastSid, lastDid, ops>>

(* ------------------------------ inputs -------------------------------- *)

AllBlockIds == UNION {DOMAIN structures[s].blocks : s \in DOMAIN structures}

\* The course locators a caller may hold: a package and a branch, with or
\* without a version; or a version alone.
CourseLocators ==
    {Locator(p, b, v, NoName) :
        p \in DOMAIN indexes, b \in Branches, v \in {None} \cup DOMAIN structures}
      \cup {Locator(NoName, NoBranch, v, NoName) : v \in DOMAIN structures}

WithBlock(locator, block_id) == [locator EXCEPT !.block_id = block_id]

\* The structure a locator stands for when the caller reads through it.
ResolvedId(locator) ==
    IF locator.version_guid # None THEN locator.version_guid
    ELSE IF /\ locator.package_id \in DOMAIN indexes
            /\ locator.branch \in DOMAIN indexes[locator.package_id].versions
    THEN indexes[locator.package_id].versions[locator.branch]
    ELSE None

(* ----------------------------- create_item ---------------------------- *)

CreateItemArgs(locator, category, block_id, definition_locator, content, block_fields, force, continue_version) ==
    [locator |-> locator, category |-> category, block_id |-> block_id,
     definition_locator |-> definition_locator, content |-> content,
     block_fields |-> block_fields, force |-> force,
     continue_version |-> continue_version]

\* The calls of create_item tried: under every locator, every force and
\* continue_version, a chapter below the root; and, from a plain locator,
\* the other arguments varied one at a time.
CreateItemChoices ==
    LET root == <<"course", 0>>
        plain == {l \in CourseLocators : l.version_guid = None}
    IN {CreateItemArgs(WithBlock(l, root), "chapter", NoName, None, EmptyDict,
                       EmptyDict, f, c) :
            l \in CourseLocators, f \in BOOLEAN, c \in BOOLEAN}
         \cup {CreateItemArgs(WithBlock(l, b), cat, NoName, None, EmptyDict,
                              EmptyDict, FALSE, FALSE) :
                  l \in plain, b \in AllBlockIds \cup {NoName},
                  cat \in {"chapter", "problem"}}
         \cup {CreateItemArgs(WithBlock(l, root), "chapter", <<"chapter", 1>>, None,
                              EmptyDict, EmptyDict, FALSE, c) :
                  l \in plain, c \in BOOLEAN}
         \cup {CreateItemArgs(WithBlock(l, root), "problem", NoName, d, content,
                              EmptyDict, FALSE, FALSE) :
                  l \in plain, d \in DOMAIN definitions \cup {BogusId},
                  content \in ContentChoices}
         \cup {CreateItemArgs(l, "chapter", NoName, None, content, fields,
                              FALSE, FALSE) :
                  l \in plain, content \in ContentChoices,
                  fields \in {"display_name" :> 2, "children" :> <<root>>}}

\* The locals of create_item at its first step.
CreateItemRequest(args) ==
    LET definition_steps ==
           IF args.definition_locator = None
           THEN <<"create_definition">> ELSE <<"get_definition">>
    IN [NewProc("create_item", args, "index_if_valid", args.locator,
                <<"lookup_index">> \o definition_steps \o <<"ci_structure">>)
          EXCEPT !.defloc = args.definition_locator]

StartCreateItem(w, args) == proc' = [proc EXCEPT ![w] = CreateItemRequest(args)]

CallCreateItem(w) ==
    /\ proc[w].pc \in {"idle", "done"}
    /\ \E args \in CreateItemChoices : StartCreateItem(w, args)
    /\ DbUnchanged

\* A parent that takes the new child as its first child.
CI_ParentPrepends(parent, new_block_id, new_id, structure_id, continue_version) ==
    [parent EXCEPT !.fields =
                      DictPut(@, "children",
                              <<new_block_id>> \o ChildrenOrEmpty(parent.fields)),
                   !.edit_info = [previous_version |-> parent.edit_info.update_version,
                                  update_version |-> new_id]]

\* The parent of a new block: the new child appended, and the edit_info
\* moved on unless this request already changed the parent in this version.
CI_Parent(parent, new_block_id, new_id, structure_id, continue_version) ==
    LET with_child == [parent EXCEPT !.fields =
                          DictPut(@, "children",
                                  Append(ChildrenOrEmpty(parent.fields), new_block_id))]
    IN IF ~continue_version \/ parent.edit_info.update_version # structure_id
       THEN [with_child EXCEPT !.edit_info =
                [previous_version |-> parent.edit_info.update_version,
                 update_version |-> new_id]]
       ELSE with_child

\* The structure create_item writes: the new block added, and appended to
\* the children of the parent the locator names.
CI_NewStructure(base, structure_id, args, new_block_id, definition_id) ==
    LET new_id == base._id
        new_block == [category |-> args.category,
                      definition |-> definition_id,
                      fields |-> args.block_fields,
                      edit_info |-> [previous_version |-> None, update_version |-> new_id]]
        blocks == DictPut(base.blocks, new_block_id, new_block)
        parent_id == args.locator.block_id
    IN IF parent_id = NoName
       THEN [base EXCEPT !.blocks = blocks]
       ELSE [base EXCEPT !.blocks =
                [blocks EXCEPT ![parent_id] =
                    CI_Parent(@, new_block_id, new_id, structure_id,
                              args.continue_version)]]

\* The copy (or, continuing, the structure itself), the new block and the
\* write of the structure; then the head, or the return.
CI_WriteStructure(w) ==
    /\ proc[w].pc = "ci_structure"
    /\ UNCHANGED <<indexes, definitions, lastDid, ops>>
    /\ LET args == proc[w].args
           structure == proc[w].entry
           new_id == IF args.continue_version THEN structure._id ELSE lastSid + 1
           base == IF args.continue_version THEN structure
                   ELSE _version_structure(structure, new_id)
           new_block_id == IF args.block_id # NoName THEN args.block_id
                           ELSE _generate_block_id(base.blocks, args.category)
           new_structure == CI_NewStructure(base, structure._id, args, new_block_id,
                                            proc[w].defloc)
       IN IF IsMissing(structure)
          THEN Raise(w, "TypeError") /\ UNCHANGED <<structures, lastSid>>
          ELSE IF args.block_id # NoName /\ args.block_id \in DOMAIN base.blocks
          THEN Raise(w, "DuplicateItemError") /\ UNCHANGED <<structures, lastSid>>
          ELSE IF /\ args.locator.block_id # NoName
                  /\ args.locator.block_id \notin DOMAIN base.blocks \cup {new_block_id}
          THEN Raise(w, "KeyError") /\ UNCHANGED <<structures, lastSid>>
          ELSE /\ IF args.continue_version
                  THEN update_structure(new_structure) /\ UNCHANGED lastSid
                  ELSE insert_structure(new_structure) /\ lastSid' = new_id
               /\ IF ~IsMissing(proc[w].index_entry) /\ ~args.continue_version
                  THEN proc' = [proc EXCEPT ![w].pc = "update_head",
                                            ![w].new_structure = new_structure]
                  ELSE proc' = [proc EXCEPT ![w] = ThenGetItem(@, new_structure)]

(* ----------------------------- update_item ---------------------------- *)

\* What a caller may do to a descriptor it has read before it saves it.
Edits == {"none", "settings", "content", "drop_child", "add_child"}

\* The descriptor of block block_id read through locator, after the edit:
\* its location, its definition and, as explicitly set fields, what is
\* stored.
Descriptor(locator, block_id, edit, other) ==
    LET block == structures[ResolvedId(locator)].blocks[block_id]
        definition == get_definition(block.definition)
        content == IF IsMissing(definition) THEN EmptyDict ELSE definition.fields
        children == ChildrenOrEmpty(block.fields)
    IN [locator |-> WithBlock(locator, block_id),
        definition_locator |-> block.definition,
        category |-> block.category,
        has_children |-> HasChildren(block.category),
        content |-> IF edit = "content" THEN DictPut(content, "data", 3) ELSE content,
        settings |-> IF edit = "settings" THEN "display_name" :> 3
                     ELSE DictRemove(block.fields, "children"),
        children |-> IF edit = "drop_child" /\ children # <<>>
                     THEN SubSeq(children, 1, Len(children) - 1)
                     ELSE IF edit = "add_child" THEN Append(children, other)
                     ELSE children]

\* The content handed over is the descriptor's explicitly set fields of
\* content scope, its location among them.
StartUpdateItem(w, descriptor, force) ==
    LET args == [locator |-> descriptor.locator, descriptor |-> descriptor,
                 content |-> DictPut(descriptor.content, "location", 1), force |-> force,
                 continue_version |-> FALSE]
    IN proc' = [proc EXCEPT ![w] =
                  [NewProc("update_item", args, "lookup_index", args.locator,
                           <<"index_if_valid", "get_definition", "ui_structure">>)
                     EXCEPT !.defloc = descriptor.definition_locator]]

CallUpdateItem(w) ==
    /\ proc[w].pc \in {"idle", "done"}
    /\ \E locator \in CourseLocators, force \in BOOLEAN, edit \in Edits :
          /\ ResolvedId(locator) \in DOMAIN structures
          /\ \E block_id \in DOMAIN structures[ResolvedId(locator)].blocks :
             \E other \in IF edit = "add_child" THEN AllBlockIds ELSE {NoName} :
                StartUpdateItem(w, Descriptor(locator, block_id, edit, other), force)
    /\ DbUnchanged

\* The block update_item stores: the descriptor's definition and settings,
\* its children when the block class has children.
UI_Block(block_data, descriptor, definition_id, new_id) ==
    [block_data EXCEPT
        !.definition = definition_id,
        !.fields = IF descriptor.has_children
                   THEN DictPut(descriptor.settings, "children", descriptor.children)
                   ELSE descriptor.settings,
        !.edit_info = [previous_version |-> block_data.edit_info.update_version,
                       update_version |-> new_id]]

\* Whether update_item finds the children or the settings changed; the
\* definition's answer is is_updated.
UI_Changed(is_updated, descriptor, original_entry) ==
    \/ is_updated
    \/ /\ descriptor.has_children
       /\ original_entry.fields["children"] # descriptor.children
    \/ _compare_settings(descriptor.settings, original_entry.fields)

\* The comparison with what is stored and, when something changed, the new
\* version of the structure.
UI_WriteStructure(w) ==
    /\ proc[w].pc = "ui_structure"
    /\ UNCHANGED <<indexes, definitions, lastDid, ops>>
    /\ LET descriptor == proc[w].args.descriptor
           original_structure == proc[w].entry
           block_id == descriptor.locator.block_id
           original_entry == _get_block_from_structure(original_structure, block_id)
           new_id == lastSid + 1
           versioned == _version_structure(original_structure, new_id)
           new_structure == [versioned EXCEPT !.blocks[block_id] =
                                UI_Block(@, descriptor, proc[w].defloc, new_id)]
       IN IF IsMissing(original_structure) \/ IsMissing(original_entry)
          THEN Raise(w, "TypeError") /\ UNCHANGED <<structures, lastSid>>
          ELSE IF /\ ~proc[w].is_updated
                  /\ descriptor.has_children
                  /\ "children" \notin DOMAIN original_entry.fields
          THEN Raise(w, "KeyError") /\ UNCHANGED <<structures, lastSid>>
          ELSE IF UI_Changed(proc[w].is_updated, descriptor, original_entry)
          THEN /\ insert_structure(new_structure)
               /\ lastSid' = new_id
               /\ IF ~IsMissing(proc[w].index_entry)
                  THEN proc' = [proc EXCEPT ![w].pc = "update_head",
                                            ![w].new_structure = new_structure]
                  ELSE proc' = [proc EXCEPT ![w] = ThenGetItem(@, new_structure)]
          ELSE /\ Finish(w, "unchanged", None, None)
               /\ UNCHANGED <<structures, lastSid>>

(* ----------------------------- delete_item ---------------------------- *)

StartDeleteItem(w, usage_locator, delete_children, force) ==
    LET args == [locator |-> usage_locator,
                 delete_children |-> delete_children, force |-> force,
                 continue_version |-> FALSE]
    IN proc' = [proc EXCEPT ![w] =
                  NewProc("delete_item", args, "lookup_index", args.locator,
                          <<"index_if_valid", "di_parents", "di_structure">>)]

CallDeleteItem(w) ==
    /\ proc[w].pc \in {"idle", "done"}
    /\ \E locator \in CourseLocators, block_id \in AllBlockIds,
          delete_children \in BOOLEAN, force \in BOOLEAN :
          StartDeleteItem(w, WithBlock(locator, block_id), delete_children, force)
    /\ DbUnchanged

\* get_parent_locations looks the course up once more.
DI_Parents(w) ==
    /\ proc[w].pc = "di_parents"
    /\ DbUnchanged
    /\ UNCHANGED ops
    /\ proc' = [proc EXCEPT ![w].pc = "lookup_index"]

\* list.remove: the first occurrence goes.
RemoveFirst(seq, x) ==
    LET i == CHOOSE j \in DOMAIN seq : seq[j] = x /\ \A k \in 1..(j - 1) : seq[k] # x
    IN SubSeq(seq, 1, i - 1) \o SubSeq(seq, i + 1, Len(seq))

RECURSIVE DI_Parent(_, _, _, _)
\* A parent of the deleted block, once for each time the scan listed it:
\* the block out of its children, the edit_info moved on.
DI_Parent(parent_block, block_id, new_id, times) ==
    IF times = 0 THEN parent_block
    ELSE DI_Parent([parent_block EXCEPT
                       !.fields["children"] = RemoveFirst(@, block_id),
                       !.edit_info = [previous_version |-> parent_block.edit_info.update_version,
                                      update_version |-> new_id]],
                   block_id, new_id, times - 1)

RECURSIVE remove_subtree(_, _, _)
RECURSIVE RemoveSubtrees(_, _, _)
\* remove_subtree: the children's subtrees first, then the block; a
\* KeyError when a block is already gone, a RuntimeError (the recursion
\* limit) when the children form a cycle.
remove_subtree(new_blocks, block_id, depth) ==
    IF depth > Cardinality(DOMAIN new_blocks) + 1
    THEN Failed("RuntimeError")
    ELSE IF block_id \notin DOMAIN new_blocks
    THEN Failed("KeyError")
    ELSE LET after == RemoveSubtrees(new_blocks,
                                     ChildrenOrEmpty(new_blocks[block_id].fields),
                                     depth + 1)
         IN IF IsFailed(after) THEN after
            ELSE IF block_id \notin DOMAIN after.blocks THEN Failed("KeyError")
            ELSE Done(DictRemove(after.blocks, block_id))

RemoveSubtrees(new_blocks, children, depth) ==
    IF children = <<>> THEN Done(new_blocks)
    ELSE LET after == remove_subtree(new_blocks, Head(children), depth)
         IN IF IsFailed(after) THEN after
            ELSE RemoveSubtrees(after.blocks, Tail(children), depth)

\* The blocks of the new version: every parent updated, the block (or its
\* subtree) removed.
DI_NewBlocks(blocks, parents, block_id, delete_children, new_id) ==
    LET unlinked == [b \in DOMAIN blocks |->
                       IF b \in DOMAIN parents
                       THEN DI_Parent(blocks[b], block_id, new_id, parents[b])
                       ELSE blocks[b]]
    IN IF delete_children THEN remove_subtree(unlinked, block_id, 1)
       ELSE IF block_id \notin DOMAIN unlinked THEN Failed("KeyError")
       ELSE Done(DictRemove(unlinked, block_id))

DI_WriteStructure(w) ==
    /\ proc[w].pc = "di_structure"
    /\ UNCHANGED <<indexes, definitions, lastDid, ops>>
    /\ LET args == proc[w].args
           block_id == args.locator.block_id
           original_structure == proc[w].structure
           new_id == lastSid + 1
           new_structure == _version_structure(original_structure, new_id)
           parents == _get_parents_from_structure(block_id, proc[w].entry)
           new_blocks == DI_NewBlocks(new_structure.blocks, parents, block_id,
                                      args.delete_children, new_id)
       IN IF IsMissing(proc[w].entry)
          THEN Raise(w, "TypeError") /\ UNCHANGED <<structures, lastSid>>
          ELSE IF ~(DOMAIN parents \subseteq DOMAIN new_structure.blocks)
          THEN Raise(w, "KeyError") /\ UNCHANGED <<structures, lastSid>>
          ELSE IF \E b \in DOMAIN parents :
                     Occurrences(ChildrenOrEmpty(new_structure.blocks[b].fields), block_id)
                        < parents[b]
          THEN Raise(w, "ValueError") /\ UNCHANGED <<structures, lastSid>>
          ELSE IF IsFailed(new_blocks)
          THEN Raise(w, new_blocks.error) /\ UNCHANGED <<structures, lastSid>>
          ELSE /\ insert_structure([new_structure EXCEPT !.blocks = new_blocks.blocks])
               /\ lastSid' = new_id
               /\ IF ~IsMissing(proc[w].index_entry)
                  THEN proc' = [proc EXCEPT ![w].pc = "update_head",
                                            ![w].new_structure =
                                               [new_structure EXCEPT !.blocks = new_blocks.blocks]]
                  ELSE proc' = [proc EXCEPT ![w].pc = "done",
                                            ![w].new_structure =
                                               [new_structure EXCEPT !.blocks = new_blocks.blocks],
                                            ![w].out = [kind |-> "ok", head |-> None,
                                                        id |-> new_id]]

(* ------------------------ internal_clean_children --------------------- *)

\* The children lists without the ids that are not blocks of the course.
CleanChildren(blocks) ==
    [b \in DOMAIN blocks |->
        IF "children" \in DOMAIN blocks[b].fields
        THEN [blocks[b] EXCEPT !.fields["children"] =
                 SelectSeq(@, LAMBDA block_id : block_id \in DOMAIN blocks)]
        ELSE blocks[b]]

StartCleanChildren(w, course_locator) ==
    proc' = [proc EXCEPT ![w] =
               NewProc("internal_clean_children", [locator |-> course_locator],
                       "lookup_index", course_locator, <<"icc_structure">>)]

CallCleanChildren(w) ==
    /\ proc[w].pc \in {"idle", "done"}
    /\ \E course_locator \in CourseLocators : StartCleanChildren(w, course_locator)
    /\ DbUnchanged

\* The structure looked up is written back over itself, cleaned: no new
\* version is made.
ICC_WriteStructure(w) ==
    /\ proc[w].pc = "icc_structure"
    /\ UNCHANGED <<indexes, definitions, lastSid, lastDid, ops>>
    /\ LET original_structure == proc[w].entry
       IN IF IsMissing(original_structure)
          THEN Raise(w, "TypeError") /\ UNCHANGED structures
          ELSE /\ update_structure([original_structure EXCEPT !.blocks = CleanChildren(@)])
               /\ Finish(w, "ok", None, None)

(* ---------------------------- xblock_publish -------------------------- *)

\* The ways to list the elements of a set: an iteration over a Python set
\* may take them in any order.
RECURSIVE Orders(_)
Orders(set) ==
    IF set = {} THEN {<<>>}
    ELSE UNION {{<<x>> \o rest : rest \in Orders(set \ {x})} : x \in set}

InSeq(x, seq) == x \in SeqToSet(seq)

\* A reordering that keeps the order the destination had.
SyncInDestinationOrder(source_parent, destination_parent, new_child) ==
    LET destination_children == destination_parent.fields["children"]
        source_children == source_parent.fields["children"]
    IN [orphans |-> {child \in SeqToSet(destination_children) :
                        ~InSeq(child, source_children)},
        destination_reordered |->
            SelectSeq(destination_children, LAMBDA child : InSeq(child, source_children))
               \o SelectSeq(source_children,
                            LAMBDA child : child = new_child
                                              /\ ~InSeq(child, destination_children))]

\* Reorders the destination's children as the source's, keeping the new
\* child and those the destination has; those the source lacks are orphans.
_sync_children(source_parent, destination_parent, new_child) ==
    LET destination_children == destination_parent.fields["children"]
        source_children == source_parent.fields["children"]
    IN [orphans |-> {child \in SeqToSet(destination_children) :
                        ~InSeq(child, source_children)},
        destination_reordered |->
            SelectSeq(source_children,
                      LAMBDA child : child = new_child \/ InSeq(child, destination_children))]

_filter_blacklist(fields, blacklist) ==
    DictPut(fields, "children",
            SelectSeq(ChildrenOrEmpty(fields), LAMBDA child : child \notin blacklist))

\* The state of a publish under way: the destination's blocks, the orphans
\* met so far, the error raised if any.
Pub(blocks, orphans) == [error |-> "", blocks |-> blocks, orphans |-> orphans]

\* A failure that surfaces as a KeyError whatever was raised.
PubFailedAsKeyError(kind) == [error |-> "KeyError", blocks |-> EmptyDict, orphans |-> {}]

PubFailed(kind) == [error |-> kind, blocks |-> EmptyDict, orphans |-> {}]

\* A destination block that is copied from the source whatever its version.
PublishedBlockAlwaysCopied(destination_blocks, new_block, block_id, blacklist) ==
    IF block_id \in DOMAIN destination_blocks
    THEN [new_block EXCEPT
             !.fields = _filter_blacklist(@, blacklist),
             !.edit_info.previous_version = new_block.edit_info.update_version]
    ELSE _new_block(new_block.category, _filter_blacklist(new_block.fields, blacklist),
                    new_block.definition, new_block.edit_info.update_version)

\* The destination block of _publish_subdag before it descends: the
\* destination's own when it is as recent as the source's, else a copy of
\* the source's without the blacklisted children.
PublishedBlock(destination_blocks, new_block, block_id, blacklist) ==
    IF block_id \in DOMAIN destination_blocks
    THEN IF destination_blocks[block_id].edit_info.update_version
               # new_block.edit_info.update_version
         THEN [new_block EXCEPT
                  !.fields = _filter_blacklist(@, blacklist),
                  !.edit_info.previous_version = new_block.edit_info.update_version]
         ELSE destination_blocks[block_id]
    ELSE _new_block(new_block.category, _filter_blacklist(new_block.fields, blacklist),
                    new_block.definition, new_block.edit_info.update_version)

\* Whether _publish_subdag compares the children lists of the two blocks.
ComparesChildren(destination_blocks, new_block, block_id) ==
    /\ block_id \in DOMAIN destination_blocks
    /\ destination_blocks[block_id].edit_info.update_version
          # new_block.edit_info.update_version

RECURSIVE _publish_subdag(_, _, _, _, _)
RECURSIVE PublishChildren(_, _, _, _, _)
\* Makes the sub-dag at block_id in the destination like the source's; the
\* block itself is stored after its children were handled.
_publish_subdag(block_id, source_blocks, st, blacklist, depth) ==
    IF depth > Cardinality(DOMAIN source_blocks) + Cardinality(DOMAIN st.blocks) + 1
    THEN PubFailed("RuntimeError")
    ELSE IF block_id \notin DOMAIN source_blocks
    THEN PubFailed("KeyError")
    ELSE LET new_block == source_blocks[block_id]
             compares == ComparesChildren(st.blocks, new_block, block_id)
             destination_block == PublishedBlock(st.blocks, new_block, block_id, blacklist)
             orphans == IF compares
                        THEN {child \in SeqToSet(st.blocks[block_id].fields["children"]) :
                                 ~InSeq(child, new_block.fields["children"])}
                        ELSE {}
             after == PublishChildren(ChildrenOrEmpty(destination_block.fields),
                                      source_blocks, Pub(st.blocks, st.orphans \cup orphans),
                                      blacklist, depth + 1)
         IN IF /\ compares
               /\ \/ "children" \notin DOMAIN new_block.fields
                  \/ "children" \notin DOMAIN st.blocks[block_id].fields
            THEN PubFailed("KeyError")
            ELSE IF IsFailed(after) THEN after
            ELSE Pub(DictPut(after.blocks, block_id, destination_block), after.orphans)

PublishChildren(children, source_blocks, st, blacklist, depth) ==
    IF children = <<>> THEN st
    ELSE LET after == IF Head(children) \in blacklist THEN st
                      ELSE _publish_subdag(Head(children), source_blocks, st,
                                           blacklist, depth)
         IN IF IsFailed(after) THEN after
            ELSE PublishChildren(Tail(children), source_blocks, after, blacklist, depth)

\* The children of every source parent of subtree_root put in order in the
\* destination.
SyncParents(parents, source_blocks, st, subtree_root) ==
    LET synced(p) == _sync_children(source_blocks[p], st.blocks[p], subtree_root)
    IN IF \E p \in parents : "children" \notin DOMAIN st.blocks[p].fields
       THEN PubFailed("KeyError")
       ELSE Pub([b \in DOMAIN st.blocks |->
                    IF b \in parents
                    THEN [st.blocks[b] EXCEPT
                             !.fields["children"] = synced(b).destination_reordered]
                    ELSE st.blocks[b]],
                st.orphans \cup UNION {synced(p).orphans : p \in parents})

RECURSIVE PublishSubtrees(_, _, _, _)
\* The loop of xblock_publish over subtree_list.
PublishSubtrees(subtree_list, source_blocks, st, blacklist) ==
    IF subtree_list = <<>> THEN st
    ELSE LET subtree_root == Head(subtree_list)
             parents == ParentsIn(subtree_root, source_blocks)
             synced == SyncParents(parents, source_blocks, st, subtree_root)
             after == _publish_subdag(subtree_root, source_blocks, synced, blacklist, 1)
         IN IF ~(parents \subseteq DOMAIN st.blocks) THEN PubFailed("ItemNotFoundError")
            ELSE IF IsFailed(synced) THEN synced
            ELSE IF IsFailed(after) THEN after
            ELSE PublishSubtrees(Tail(subtree_list), source_blocks, after, blacklist)

RECURSIVE _delete_if_true_orphan(_, _, _)
RECURSIVE DeleteOrphans(_, _, _)
\* Deletes the orphan when no block lists it, after trying its children.
_delete_if_true_orphan(orphan, blocks, depth) ==
    IF ParentsIn(orphan, blocks) # {} THEN Done(blocks)
    ELSE IF orphan \notin DOMAIN blocks THEN Failed("KeyError")
    ELSE LET after == DeleteOrphans(ChildrenOrEmpty(blocks[orphan].fields), blocks,
                                    depth + 1)
         IN IF IsFailed(after) THEN after
            ELSE IF orphan \notin DOMAIN after.blocks THEN Failed("KeyError")
            ELSE Done(DictRemove(after.blocks, orphan))

DeleteOrphans(orphans, blocks, depth) ==
    IF orphans = <<>> THEN Done(blocks)
    ELSE LET after == _delete_if_true_orphan(Head(orphans), blocks, depth)
         IN IF IsFailed(after) THEN after
            ELSE DeleteOrphans(Tail(orphans), after.blocks, depth)

\* The subtree lists and blacklists tried.
SubtreeLists ==
    {<<b>> : b \in AllBlockIds} \cup {<<b, <<"course", 0>>>> : b \in AllBlockIds}

Blacklists == {{}} \cup {{b} : b \in AllBlockIds}

StartPublish(w, source, destination, subtree_list, blacklist) ==
    LET args == [source |-> source, destination |-> destination,
                 subtree_list |-> subtree_list, blacklist |-> blacklist]
    IN proc' = [proc EXCEPT ![w] =
                  NewProc("xblock_publish", args, "lookup_index", source,
                          <<"xp_destination_index">>)]

CallPublish(w) ==
    /\ proc[w].pc \in {"idle", "done"}
    /\ \E source \in CourseLocators, package_id \in DOMAIN indexes, branch \in Branches,
          subtree_list \in SubtreeLists, blacklist \in Blacklists :
          StartPublish(w, source, Locator(package_id, branch, None, NoName),
                       subtree_list, blacklist)
    /\ DbUnchanged

\* The destination's index: it must exist; a destination branch that does
\* not exist yet needs the source's root among the subtrees.
XP_DestinationIndex(w) ==
    /\ proc[w].pc = "xp_destination_index"
    /\ DbUnchanged
    /\ UNCHANGED ops
    /\ LET args == proc[w].args
           source_structure == proc[w].entry
           index_entry == get_course_index(args.destination.package_id)
       IN IF IsMissing(index_entry)
          THEN Raise(w, "ItemNotFoundError")
          ELSE IF args.destination.branch \notin DOMAIN index_entry.versions
          THEN IF IsMissing(source_structure)
               THEN Raise(w, "TypeError")
               ELSE IF ~InSeq(source_structure.root, args.subtree_list)
               THEN Raise(w, "ItemNotFoundError")
               ELSE proc' = [proc EXCEPT ![w].pc = "xp_structure",
                                         ![w].structure = source_structure,
                                         ![w].index_entry = index_entry,
                                         ![w].entry = Missing]
          ELSE proc' = [proc EXCEPT ![w].pc = "lookup_index",
                                    ![w].todo = <<"xp_structure">>,
                                    ![w].lk = args.destination,
                                    ![w].structure = source_structure,
                                    ![w].index_entry = index_entry]

\* The new destination structure: the subtrees published, the orphans that
\* no block lists any more deleted (in the order the set yields them), and
\* the structure inserted.
XP_WriteStructure(w) ==
    /\ proc[w].pc = "xp_structure"
    /\ UNCHANGED <<indexes, definitions, lastDid, ops>>
    /\ LET args == proc[w].args
           source_structure == proc[w].structure
           new_branch == args.destination.branch \notin DOMAIN proc[w].index_entry.versions
           new_id == lastSid + 1
           destination_structure ==
              IF new_branch
              THEN _new_structure(new_id, source_structure.root, "", EmptyDict, None)
              ELSE _version_structure(proc[w].entry, new_id)
           published == PublishSubtrees(args.subtree_list, source_structure.blocks,
                                        Pub(destination_structure.blocks, {}),
                                        args.blacklist)
       IN IF IsMissing(source_structure) \/ (~new_branch /\ IsMissing(proc[w].entry))
          THEN Raise(w, "TypeError") /\ UNCHANGED <<structures, lastSid>>
          ELSE IF IsFailed(published)
          THEN Raise(w, published.error) /\ UNCHANGED <<structures, lastSid>>
          ELSE \E order \in Orders(published.orphans) :
                  LET cleaned == DeleteOrphans(order, published.blocks, 1)
                      new_structure == [destination_structure EXCEPT !.blocks = cleaned.blocks]
                  IN IF IsFailed(cleaned)
                     THEN Raise(w, cleaned.error) /\ UNCHANGED <<structures, lastSid>>
                     ELSE /\ insert_structure(new_structure)
                          /\ lastSid' = new_id
                          /\ proc' = [proc EXCEPT ![w].pc = "update_head",
                                                  ![w].new_structure = new_structure]

(* -------------------------- persist_xblock_dag ------------------------ *)

\* The block id of an xblock that is not stored yet.
LocalId == <<"LocalId", 0>>

\* An xblock made in memory: a problem with content and no definition yet.
NewXBlock(locator) ==
    [locator |-> WithBlock(locator, LocalId), definition_locator |-> None,
     category |-> "problem", has_children |-> FALSE, content |-> "data" :> 2,
     settings |-> EmptyDict, children |-> <<>>]

\* The dags tried: a stored block as read or edited, with a stored or a
\* new block added to its children; or a new block alone.
PersistChoices(locator) ==
    LET blocks == structures[ResolvedId(locator)].blocks
    IN {Descriptor(locator, b, edit, NoName) :
           b \in DOMAIN blocks, edit \in {"none", "settings", "content"}}
         \cup {Descriptor(locator, b, "add_child", other) :
                  b \in {c \in DOMAIN blocks : HasChildren(blocks[c].category)},
                  other \in AllBlockIds \cup {LocalId}}
         \cup {NewXBlock(locator)}

StartPersist(w, xblock, force) ==
    LET args == [locator |-> xblock.locator, descriptor |-> xblock,
                 content |-> xblock.content, category |-> xblock.category,
                 force |-> force, continue_version |-> FALSE]
    IN proc' = [proc EXCEPT ![w] =
                  [NewProc("persist_xblock_dag", args, "index_if_valid",
                           args.locator, <<"lookup_index", "px_version">>)
                     EXCEPT !.defloc = xblock.definition_locator]]

CallPersist(w) ==
    /\ proc[w].pc \in {"idle", "done"}
    /\ \E locator \in CourseLocators, force \in BOOLEAN :
          /\ ResolvedId(locator) \in DOMAIN structures
          /\ \E xblock \in PersistChoices(locator) : StartPersist(w, xblock, force)
    /\ DbUnchanged

\* _version_structure on what was looked up, and the way _persist_subdag
\* takes for the definition of the xblock.
PX_Version(w) ==
    /\ proc[w].pc = "px_version"
    /\ DbUnchanged
    /\ UNCHANGED ops
    /\ LET xblock == proc[w].args.descriptor
           new_def_data == _filter_special_fields(xblock.content)
       IN IF IsMissing(proc[w].entry)
          THEN Raise(w, "TypeError")
          ELSE IF xblock.definition_locator = None
          THEN proc' = [proc EXCEPT ![w].pc = "create_definition",
                                    ![w].todo = <<"px_child", "px_structure">>]
          ELSE IF new_def_data # EmptyDict
          THEN proc' = [proc EXCEPT ![w].pc = "get_definition",
                                    ![w].todo = <<"px_child", "px_structure">>]
          ELSE proc' = [proc EXCEPT ![w].pc = "px_child",
                                    ![w].todo = <<"px_structure">>]

\* _persist_subdag between the definition of the xblock and its block: the
\* comparison of the children, then the definition of a new child.
PX_Child(w) ==
    /\ proc[w].pc = "px_child"
    /\ UNCHANGED <<indexes, structures, lastSid, ops>>
    /\ LET xblock == proc[w].args.descriptor
           structure_blocks == proc[w].entry.blocks
           block_id == xblock.locator.block_id
           is_new == block_id = LocalId
           unbound == /\ xblock.definition_locator # None
                      /\ _filter_special_fields(xblock.content) = EmptyDict
           definition_updated == xblock.definition_locator = None \/ proc[w].is_updated
           compares == ~is_new /\ ~definition_updated /\ xblock.has_children
           is_updated == \/ is_new
                         \/ definition_updated
                         \/ /\ xblock.has_children
                            /\ structure_blocks[block_id].fields["children"] # xblock.children
           new_id == lastDid + 1
           document == [_id |-> new_id, category |-> "problem",
                        fields |-> "data" :> 2,
                        edit_info |-> [previous_version |-> None,
                                       original_version |-> new_id]]
       IN IF ~is_new /\ unbound
          THEN Raise(w, "UnboundLocalError") /\ UNCHANGED <<definitions, lastDid>>
          ELSE IF /\ compares
                  /\ \/ block_id \notin DOMAIN structure_blocks
                     \/ "children" \notin DOMAIN structure_blocks[block_id].fields
          THEN Raise(w, "KeyError") /\ UNCHANGED <<definitions, lastDid>>
          ELSE IF xblock.has_children /\ InSeq(LocalId, xblock.children)
          THEN /\ insert_definition(document)
               /\ lastDid' = new_id
               /\ proc' = [proc EXCEPT ![w] = [Pop(@) EXCEPT !.is_updated = TRUE,
                                                             !.child_definition = new_id]]
          ELSE /\ UNCHANGED <<definitions, lastDid>>
               /\ proc' = [proc EXCEPT ![w] = [Pop(@) EXCEPT !.is_updated = is_updated]]

\* The blocks _persist_subdag leaves: the new child, if any, and the
\* xblock's own block.
PX_Blocks(structure_blocks, xblock, is_new, definition_id, child_definition, new_id) ==
    LET block_id == IF is_new THEN _generate_block_id(structure_blocks, xblock.category)
                    ELSE xblock.locator.block_id
        child_id == _generate_block_id(structure_blocks, "problem")
        with_child == IF xblock.has_children /\ InSeq(LocalId, xblock.children)
                      THEN DictPut(structure_blocks, child_id,
                                   [category |-> "problem", definition |-> child_definition,
                                    fields |-> EmptyDict,
                                    edit_info |-> [previous_version |-> None,
                                                   update_version |-> new_id]])
                      ELSE structure_blocks
        children == IF xblock.has_children
                    THEN [i \in DOMAIN xblock.children |->
                             IF xblock.children[i] = LocalId THEN child_id
                             ELSE xblock.children[i]]
                    ELSE <<>>
        block_fields == IF children # <<>>
                        THEN DictPut(xblock.settings, "children", children)
                        ELSE xblock.settings
        previous_version == IF is_new THEN None
                            ELSE with_child[block_id].edit_info.update_version
    IN DictPut(with_child, block_id,
               [category |-> xblock.category, definition |-> definition_id,
                fields |-> block_fields,
                edit_info |-> [previous_version |-> previous_version,
                               update_version |-> new_id]])

\* The rest of _persist_subdag and, when something changed, the new version
\* of the structure.
PX_WriteStructure(w) ==
    /\ proc[w].pc = "px_structure"
    /\ UNCHANGED <<indexes, definitions, lastDid, ops>>
    /\ LET xblock == proc[w].args.descriptor
           block_id == xblock.locator.block_id
           is_new == block_id = LocalId
           new_id == lastSid + 1
           versioned == _version_structure(proc[w].entry, new_id)
           is_updated ==
              IF ~is_new /\ ~proc[w].is_updated
              THEN _compare_settings(xblock.settings, versioned.blocks[block_id].fields)
              ELSE proc[w].is_updated
           new_structure ==
              [versioned EXCEPT !.blocks =
                  PX_Blocks(@, xblock, is_new, proc[w].defloc,
                            proc[w].child_definition, new_id)]
       IN IF ~is_new /\ block_id \notin DOMAIN versioned.blocks
          THEN Raise(w, "KeyError") /\ UNCHANGED <<structures, lastSid>>
          ELSE IF is_updated
          THEN /\ insert_structure(new_structure)
               /\ lastSid' = new_id
               /\ IF ~IsMissing(proc[w].index_entry)
                  THEN proc' = [proc EXCEPT ![w].pc = "update_head",
                                            ![w].new_structure = new_structure]
                  ELSE proc' = [proc EXCEPT ![w] = ThenGetItem(@, new_structure)]
          ELSE /\ Finish(w, "unchanged", None, None)
               /\ UNCHANGED <<structures, lastSid>>

(* ------------------------------- has_item ----------------------------- *)

\* The call of has_item and its first test, of the block_id; the answer
\* ("True" or "False") is the kind of the request's end.
StartHasItem(w, block_location) ==
    LET p == NewProc("has_item", [locator |-> block_location], "lookup_index",
                     block_location, <<"hi_return">>)
    IN proc' = [proc EXCEPT ![w] =
                  IF block_location.block_id = NoName
                  THEN [p EXCEPT !.pc = "done",
                                 !.out = [kind |-> "InsufficientSpecificationError",
                                          head |-> None, id |-> None]]
                  ELSE p]

\* The test of the block in the structure looked up: structure['blocks']
\* of None is a TypeError.
HI_Return(w) ==
    /\ proc[w].pc = "hi_return"
    /\ DbUnchanged
    /\ UNCHANGED ops
    /\ IF IsMissing(proc[w].entry)
       THEN Raise(w, "TypeError")
       ELSE IF IsMissing(_get_block_from_structure(proc[w].entry,
                                                   proc[w].args.locator.block_id))
       THEN Finish(w, "False", None, None)
       ELSE Finish(w, "True", None, None)

(* ------------------------------ get_courses --------------------------- *)

\* The results get_courses(branch) can return: one descriptor for each
\* stored structure that is the head of the branch in some index, labelled
\* with the package id that id_version_map holds for the structure's id,
\* the last index of the cursor with that head, which is any of them.  A
\* result maps the structure's id to the label.
get_courses(branch) ==
    LET matching == {p \in DOMAIN indexes : branch \in DOMAIN indexes[p].versions}
        version_guids == {indexes[p].versions[branch] : p \in matching}
        course_entries == version_guids \cap DOMAIN structures
    IN {id_version_map \in [course_entries -> matching] :
           \A version_guid \in course_entries :
              indexes[id_version_map[version_guid]].versions[branch] = version_guid}

\* get_courses: the result is kept in new_structure.
GC_Return(w) ==
    /\ proc[w].pc = "gc_return"
    /\ DbUnchanged
    /\ UNCHANGED ops
    /\ \E result \in get_courses(proc[w].args.branch) :
          proc' = [proc EXCEPT ![w].pc = "done",
                               ![w].new_structure = result,
                               ![w].out = [kind |-> "ok", head |-> None, id |-> None]]

(* ------------------------- get_course_successors ---------------------- *)

RECURSIVE SuccessorLevels(_, _, _, _)
\* The while loop of get_course_successors: the results it can end with.
\* A result maps a version to the ids listed under it, each with the number
\* of times it is listed.  The loop labels every structure of a level with
\* the id left in struct by the list comprehension before it, the last
\* structure of the cursor, which is any structure of the level.
SuccessorLevels(result, next_versions, depth, version_history_depth) ==
    LET next_entries == {s \in DOMAIN structures :
                            structures[s].previous_version \in next_versions}
        listed(r, v) == IF v \in DOMAIN r THEN r[v] ELSE EmptyDict
        appended(struct) ==
           [v \in DOMAIN result \cup {structures[s].previous_version : s \in next_entries} |->
               LET times == Cardinality({s \in next_entries :
                                            structures[s].previous_version = v})
                   before == listed(result, v)
               IN IF times = 0 THEN before
                  ELSE DictPut(before, struct,
                               times + (IF struct \in DOMAIN before THEN before[struct] ELSE 0))]
    IN IF ~(depth < version_history_depth /\ next_versions # {}) \/ next_entries = {}
       THEN {result}
       ELSE UNION {SuccessorLevels(appended(struct), next_entries, depth + 1,
                                   version_history_depth) : struct \in next_entries}

\* The results get_course_successors can return for the version: the
\* first level listed by the structures' own ids, then the loop.
get_course_successors(version_guid, version_history_depth) ==
    LET next_versions == {s \in DOMAIN structures :
                             structures[s].previous_version = version_guid}
    IN SuccessorLevels(version_guid :> [s \in next_versions |-> 1], next_versions, 1,
                       version_history_depth)

\* get_course_successors after the lookup of the course, if any: the
\* result is kept in new_structure.
GS_Return(w) ==
    /\ proc[w].pc = "gs_return"
    /\ DbUnchanged
    /\ UNCHANGED ops
    /\ IF proc[w].args.locator.version_guid = None /\ IsMissing(proc[w].entry)
       THEN Raise(w, "TypeError")
       ELSE LET version_guid == IF proc[w].args.locator.version_guid = None
                                THEN proc[w].entry._id
                                ELSE proc[w].args.locator.version_guid
            IN \E result \in get_course_successors(version_guid, proc[w].args.depth) :
                  proc' = [proc EXCEPT ![w].pc = "done",
                                       ![w].guid = version_guid,
                                       ![w].new_structure = result,
                                       ![w].out = [kind |-> "ok", head |-> None, id |-> None]]

(* ------------------------------ get_orphans --------------------------- *)

\* The categories of the blocks that live outside the tree.
DetachedCategories == {"about"}

\* An answer that leaves out the blocks that have children of their own.
OrphansWithoutChildren(structure) ==
    IF structure.root \notin DOMAIN structure.blocks
    THEN Failed("KeyError")
    ELSE Done({b \in DOMAIN structure.blocks \ {structure.root} :
                 /\ ParentsIn(b, structure.blocks) = {}
                 /\ ChildrenOrEmpty(structure.blocks[b].fields) = <<>>
                 /\ structure.blocks[b].category \notin DetachedCategories})

\* What get_orphans answers on a structure it has looked up: the blocks
\* other than the root that are no block's child and are not detached; a
\* KeyError when the root is not a block.
get_orphans(structure) ==
    IF structure.root \notin DOMAIN structure.blocks
    THEN Failed("KeyError")
    ELSE Done({b \in DOMAIN structure.blocks \ {structure.root} :
                 /\ ParentsIn(b, structure.blocks) = {}
                 /\ structure.blocks[b].category \notin DetachedCategories})

(* ---------------------------- inherit_settings ------------------------ *)

\* The names of the fields that pass from a block to its descendants
\* (inheritance.InheritanceMixin.fields).
InheritableFields == {"start"}

RECURSIVE inherit_settings(_, _, _)
RECURSIVE InheritChildren(_, _, _)
\* inherit_settings on the block block_id of block_map: what is passed
\* down goes over what the block had cached, and the block's own
\* inheritable fields over that for its children; a child that is no key
\* of block_map is passed over.
inherit_settings(block_map, block_id, inheriting_settings) ==
    IF block_id \notin DOMAIN block_map THEN block_map
    ELSE LET block_json == block_map[block_id]
             cached == IF "_inherited_settings" \in DOMAIN block_json
                       THEN block_json["_inherited_settings"] ELSE EmptyDict
             mine == DictUpdate(cached, inheriting_settings)
             block_fields == block_json.fields
             passed == DictUpdate(mine, [f \in InheritableFields \cap DOMAIN block_fields |->
                                            block_fields[f]])
             updated == [k \in DOMAIN block_json \cup {"_inherited_settings"} |->
                           IF k = "_inherited_settings" THEN mine ELSE block_json[k]]
         IN InheritChildren(DictPut(block_map, block_id, updated),
                            ChildrenOrEmpty(block_fields), passed)

InheritChildren(block_map, children, inheriting_settings) ==
    IF children = <<>> THEN block_map
    ELSE InheritChildren(inherit_settings(block_map, Head(children), inheriting_settings),
                         Tail(children), inheriting_settings)

\* The materialization of a course: the look-up, then inherit_settings
\* from the root of the structure.
StartInherit(w, course_locator) ==
    proc' = [proc EXCEPT ![w] =
               NewProc("inherit_settings", [locator |-> course_locator], "lookup_index",
                       course_locator, <<"inherit">>)]

Inherit(w) ==
    /\ proc[w].pc = "inherit"
    /\ DbUnchanged
    /\ UNCHANGED ops
    /\ LET structure == proc[w].entry
       IN IF IsMissing(structure)
          THEN Raise(w, "TypeError")
          ELSE proc' = [proc EXCEPT
                          ![w].pc = "done",
                          ![w].new_structure =
                             [structure EXCEPT !.blocks =
                                 inherit_settings(@, structure.root, EmptyDict)],
                          ![w].out = [kind |-> "ok", head |-> None, id |-> structure._id]]

(* ------------------------- the specifications ------------------------- *)

Init ==
    /\ indexes = EmptyDict
    /\ structures = EmptyDict
    /\ definitions = EmptyDict
    /\ lastSid = 0
    /\ lastDid = 0
    /\ proc = [w \in Writers |-> Idle]
    /\ ops = MaxOps

\* A caller starts a request.
Call(w) ==
    /\ ops > 0
    /\ ops' = ops - 1
    /\ \/ CallCreateCourse(w)
       \/ CallDeleteCourse(w)
       \/ CallCreateItem(w)
       \/ CallUpdateItem(w)
       \/ CallDeleteItem(w)
       \/ CallPublish(w)
       \/ CallPersist(w)
       \/ CallCleanChildren(w)

\* The request of w makes its next document-store call.
Step(w) ==
    \/ LookupIndex(w)
    \/ LookupStructure(w)
    \/ IndexIfValid(w)
    \/ CreateDefinition(w)
    \/ GetDefinition(w)
    \/ InsertDefinition(w)
    \/ UpdateHead(w)
    \/ CC_InsertDefinition(w)
    \/ CC_InsertStructure(w)
    \/ CC_GetDefinition(w)
    \/ CC_CloneDefinition(w)
    \/ CC_CloneStructure(w)
    \/ CC_GenerateId(w)
    \/ CC_InsertIndex(w)
    \/ CC_Return(w)
    \/ DC_GetIndex(w)
    \/ DC_DeleteIndex(w)
    \/ CI_WriteStructure(w)
    \/ UI_WriteStructure(w)
    \/ DI_Parents(w)
    \/ DI_WriteStructure(w)
    \/ ReturnItem(w)
    \/ PX_Version(w)
    \/ PX_Child(w)
    \/ PX_WriteStructure(w)
    \/ XP_DestinationIndex(w)
    \/ XP_WriteStructure(w)
    \/ ICC_WriteStructure(w)

\* One request at a time.
Next == Call(1) \/ Step(1)

Spec == Init /\ [][Next]_vars

\* Two callers at once, on a store that holds one course with a chapter:
\* what create_course and then create_item leave.
ConcCourse == _new_structure(1, <<"course", 0>>, "course", EmptyDict, 1)

ConcChapterArgs ==
    CreateItemArgs(Locator(<<"org", 0>>, "draft", None, <<"course", 0>>), "chapter", NoName, None, EmptyDict, EmptyDict, FALSE, FALSE)

ConcInit ==
    /\ indexes = (<<"org", 0>> :> [_id |-> <<"org", 0>>, versions |-> ("draft" :> 2)])
    /\ structures = (1 :> ConcCourse) @@
                    (2 :> CI_NewStructure(_version_structure(ConcCourse, 2), 1,
                                          ConcChapterArgs, <<"chapter", 1>>, 2))
    /\ definitions = [d \in {1, 2} |->
                        [_id |-> d,
                         category |-> IF d = 1 THEN "course" ELSE "chapter",
                         fields |-> EmptyDict,
                         edit_info |-> [previous_version |-> None,
                                        original_version |-> d]]]
    /\ lastSid = 2
    /\ lastDid = 2
    /\ proc = [w \in Writers |-> Idle]
    /\ ops = MaxConcOps

\* What the two callers hold: the package and the branch, with the head
\* they read at the start or without a version.
HeldLocators ==
    {Locator(<<"org", 0>>, "draft", v, NoName) : v \in {None, 2}}

\* The descriptor a caller read at the start, to be saved through l.
HeldDescriptor(l, block_id, edit, other) ==
    [Descriptor(Locator(<<"org", 0>>, "draft", 2, NoName), block_id, edit, other)
        EXCEPT !.locator = WithBlock(l, block_id)]

\* A caller starts a request on what it holds.
ConcCall(w) ==
    /\ ops > 0
    /\ ops' = ops - 1
    /\ proc[w].pc \in {"idle", "done"}
    /\ DbUnchanged
    /\ \/ \E settings \in SettingsChoices, given \in BOOLEAN :
             StartCreateCourse(w, EmptyDict, settings, given,
                               IF given THEN "draft" :> 2 ELSE EmptyDict)
       \/ StartDeleteCourse(w, <<"org", 0>>)
       \/ \E l \in HeldLocators, force \in BOOLEAN :
             StartCreateItem(w, CreateItemArgs(WithBlock(l, <<"course", 0>>), "chapter", NoName, None, EmptyDict, EmptyDict, force, FALSE))
       \/ \E l \in HeldLocators, edit \in {"none", "settings"} :
             StartUpdateItem(w, HeldDescriptor(l, <<"chapter", 1>>, edit, NoName), FALSE)
       \/ \E l \in HeldLocators, block_id \in {<<"course", 0>>, <<"chapter", 1>>} :
             StartDeleteItem(w, WithBlock(l, block_id), FALSE, FALSE)
       \/ \E l \in HeldLocators :
             StartPublish(w, l, Locator(<<"org", 0>>, "published", None, NoName),
                          <<<<"course", 0>>>>, {})
       \/ \E l \in HeldLocators, edit \in {"content", "add_child"} :
             StartPersist(w, HeldDescriptor(l, <<"course", 0>>, edit, LocalId), FALSE)
       \/ \E l \in HeldLocators : StartCleanChildren(w, l)

ConcNext == \E w \in Writers : ConcCall(w) \/ Step(w)

ConcSpec == ConcInit /\ [][ConcNext]_vars

\* One caller that edits and publishes, on a store that holds one course
\* with a chapter and a problem in the chapter: what create_course and two
\* create_item leave.
MaxPubOps == 4

PubProblemArgs ==
    CreateItemArgs(Locator(<<"org", 0>>, "draft", None, <<"chapter", 1>>), "problem", NoName, None, EmptyDict, EmptyDict, FALSE, FALSE)

\* The store after create_course and two create_item: the draft head is
\* course -> chapter1 -> problem1.
PubStore ==
    /\ indexes = (<<"org", 0>> :> [_id |-> <<"org", 0>>, versions |-> ("draft" :> 3)])
    /\ LET chapter == CI_NewStructure(_version_structure(ConcCourse, 2), 1,
                                      ConcChapterArgs, <<"chapter", 1>>, 2)
           problem == CI_NewStructure(_version_structure(chapter, 3), 2,
                                      PubProblemArgs, <<"problem", 1>>, 3)
       IN structures = (1 :> ConcCourse) @@ (2 :> chapter) @@ (3 :> problem)
    /\ definitions = [d \in {1, 2, 3} |->
                        [_id |-> d,
                         category |-> IF d = 1 THEN "course"
                                      ELSE IF d = 2 THEN "chapter" ELSE "problem",
                         fields |-> EmptyDict,
                         edit_info |-> [previous_version |-> None,
                                        original_version |-> d]]]
    /\ lastSid = 3
    /\ lastDid = 3

PubInit ==
    /\ PubStore
    /\ proc = [w \in Writers |-> Idle]
    /\ ops = MaxPubOps

PubSource == Locator(<<"org", 0>>, "draft", None, NoName)

PubDestination == Locator(<<"org", 0>>, "published", None, NoName)

PubBlocks == {<<"course", 0>>, <<"chapter", 1>>, <<"problem", 1>>}

\* The subtree lists tried: one block, or the root and then another block.
PubSubtreeLists ==
    {<<b>> : b \in PubBlocks}
       \cup {<<<<"course", 0>>, b>> : b \in PubBlocks \ {<<"course", 0>>}}

PubBlacklists == {{}} \cup {{b} : b \in PubBlocks}

\* A block id that no structure has.
PubStray == <<"problem", 9>>

\* The descriptors saved: a block of the draft head as read, then edited.
PubDescriptors ==
    IF ResolvedId(PubSource) \in DOMAIN structures
    THEN LET blocks == structures[ResolvedId(PubSource)].blocks
         IN {Descriptor(PubSource, b, edit, PubStray) :
                b \in DOMAIN blocks \cap {<<"course", 0>>, <<"chapter", 1>>},
                edit \in {"settings", "content", "drop_child", "add_child"}}
    ELSE {}

\* The caller starts a request on the course.
PubCall(w) ==
    /\ ops > 0
    /\ ops' = ops - 1
    /\ proc[w].pc \in {"idle", "done"}
    /\ DbUnchanged
    /\ \/ \E subtree_list \in PubSubtreeLists, blacklist \in PubBlacklists :
             StartPublish(w, PubSource, PubDestination, subtree_list, blacklist)
       \/ \E block_id \in PubBlocks \ {<<"course", 0>>}, delete_children \in BOOLEAN :
             StartDeleteItem(w, WithBlock(PubSource, block_id), delete_children, FALSE)
       \/ \E descriptor \in PubDescriptors : StartUpdateItem(w, descriptor, FALSE)
       \/ StartCreateItem(w, CreateItemArgs(WithBlock(PubSource, <<"course", 0>>), "chapter", NoName, None, EmptyDict, EmptyDict, FALSE, FALSE))
       \/ \E l \in {PubSource, PubDestination} : StartCleanChildren(w, l)
       \/ \E given \in BOOLEAN :
             StartCreateCourse(w, EmptyDict, "display_name" :> 2, given,
                               IF given THEN "draft" :> 3 ELSE EmptyDict)
       \/ StartDeleteCourse(w, <<"org", 0>>)
       \/ \E descriptor \in {d \in PubDescriptors : d.locator.block_id = <<"course", 0>>} :
             StartPersist(w, [descriptor EXCEPT !.children =
                                 [i \in DOMAIN @ |-> IF @[i] = PubStray THEN LocalId ELSE @[i]]],
                          FALSE)

PubNext == PubCall(1) \/ Step(1)

PubSpec == PubInit /\ [][PubNext]_vars

\* One caller that edits the tree of that course and asks for blocks.
MaxTreeOps == 3

\* The largest version_history_depth asked for.
MaxDepth == 3

TreeInit ==
    /\ PubStore
    /\ proc = [w \in Writers |-> Idle]
    /\ ops = MaxTreeOps

\* The caller starts a request: on the blocks of the draft head
\* (TreeBlocks), or has_item by one of TreeLocators: the branch, a version
\* of it, another branch, another course, a version alone, and versions
\* nothing has; or asks for the courses of a branch, or for the successors
\* of a version.
TreeCall(w) ==
    LET TreeBlocks ==
           IF ResolvedId(PubSource) \in DOMAIN structures
           THEN structures[ResolvedId(PubSource)].blocks ELSE EmptyDict
        TreeLocators ==
           {PubSource, PubDestination,
            Locator(<<"org", 0>>, "draft", 3, NoName),
            Locator(<<"org", 0>>, "draft", BogusId, NoName),
            Locator(<<"org", 9>>, "draft", None, NoName),
            Locator(NoName, NoBranch, 3, NoName),
            Locator(NoName, NoBranch, BogusId, NoName)}
    IN
    /\ ops > 0
    /\ ops' = ops - 1
    /\ proc[w].pc \in {"idle", "done"}
    /\ DbUnchanged
    /\ \/ \E l \in TreeLocators,
             b \in {<<"course", 0>>, <<"problem", 1>>, PubStray, NoName} :
             StartHasItem(w, WithBlock(l, b))
       \/ \E b \in DOMAIN TreeBlocks, delete_children \in BOOLEAN :
             StartDeleteItem(w, WithBlock(PubSource, b), delete_children, FALSE)
       \/ \E b \in {x \in DOMAIN TreeBlocks : HasChildren(TreeBlocks[x].category)} :
          \E other \in DOMAIN TreeBlocks \ {<<"course", 0>>, b} :
             StartUpdateItem(w, Descriptor(PubSource, b, "add_child", other), FALSE)
       \/ \E b \in {<<"course", 0>>, <<"chapter", 1>>},
             category \in {"chapter", "problem", "about"} :
             StartCreateItem(w, CreateItemArgs(WithBlock(PubSource, b), category, NoName,
                                               None, EmptyDict, EmptyDict, FALSE, FALSE))
       \/ StartCreateItem(w, CreateItemArgs(PubSource, "chapter", NoName, None,
                                            "data" :> 2, "children" :> <<<<"course", 0>>>>,
                                            FALSE, FALSE))
       \/ StartPublish(w, PubSource, PubDestination, <<<<"course", 0>>>>, {})
       \/ StartCleanChildren(w, PubSource)
       \/ \E given \in BOOLEAN :
             StartCreateCourse(w, EmptyDict, "display_name" :> 2, given,
                               IF given THEN "draft" :> 3 ELSE EmptyDict)
       \/ StartCreateCourse(w, EmptyDict, EmptyDict, TRUE, "draft" :> 3)
       \/ \E branch \in {"draft", "published"} :
             proc' = [proc EXCEPT ![w] =
                        NewProc("get_courses", [branch |-> branch], "gc_return",
                                PubSource, <<>>)]
       \/ StartDeleteCourse(w, <<"org", 0>>)
       \/ \E b \in DOMAIN TreeBlocks \cap {<<"course", 0>>} :
             StartUpdateItem(w, Descriptor(PubSource, b, "content", NoName), FALSE)
       \/ \E descriptor \in {d \in PubDescriptors : d.locator.block_id = <<"course", 0>>
                                                       /\ d.settings # EmptyDict} :
             StartPersist(w, [descriptor EXCEPT !.children =
                                 [i \in DOMAIN @ |-> IF @[i] = PubStray THEN LocalId ELSE @[i]]],
                          FALSE)
       \/ \E l \in {PubSource, PubDestination} \cup
                    {Locator(NoName, NoBranch, v, NoName) : v \in 1..3},
             depth \in 0..MaxDepth :
             LET p == NewProc("get_course_successors", [locator |-> l, depth |-> depth],
                              "lookup_index", l, <<"gs_return">>)
             IN proc' = [proc EXCEPT ![w] =
                           IF depth < 1
                           THEN [p EXCEPT !.pc = "done",
                                          !.out = [kind |-> "None", head |-> None, id |-> None]]
                           ELSE IF l.version_guid = None THEN p
                           ELSE [p EXCEPT !.pc = "gs_return", !.todo = <<>>]]

TreeNext == TreeCall(1) \/ Step(1) \/ HI_Return(1) \/ GS_Return(1) \/ GC_Return(1)

TreeSpec == TreeInit /\ [][TreeNext]_vars

\* A store of one course.  The block maps inherit_settings is run over
\* (InheritBlockMaps): a course, two chapters and a problem, the children
\* lists without cycles, and the inheritable field set or not on the course
\* and on each chapter.
InheritInit ==
    LET r == <<"course", 0>>
        a == <<"chapter", 1>>
        b == <<"chapter", 2>>
        c == <<"problem", 1>>
        Lists(S) == UNION {Orders(T) : T \in SUBSET S}
        Block(category, definition, children, value) ==
           [category |-> category, definition |-> definition,
            fields |-> IF value = None THEN "children" :> children
                       ELSE ("children" :> children) @@ ("start" :> value),
            edit_info |-> [previous_version |-> None, update_version |-> 1]]
        InheritBlockMaps ==
         {(r :> Block("course", 1, cr, vr)) @@ (a :> Block("chapter", 2, ca, va))
           @@ (b :> Block("chapter", 3, cb, vb))
           @@ (c :> [Block("problem", 4, <<>>, None) EXCEPT !.fields = EmptyDict]) :
          cr \in Lists({a, b, c}), ca \in Lists({b, c}), cb \in Lists({c}),
          vr \in {None, 1}, va \in {None, 2}, vb \in {None, 3}}
    IN
    /\ indexes = (<<"org", 0>> :> [_id |-> <<"org", 0>>, versions |-> ("draft" :> 1)])
    /\ \E blocks \in InheritBlockMaps :
          structures = (1 :> [_id |-> 1, root |-> <<"course", 0>>, previous_version |-> None,
                              original_version |-> 1, blocks |-> blocks])
    /\ definitions = [d \in 1..4 |->
                        [_id |-> d,
                         category |-> IF d = 1 THEN "course"
                                      ELSE IF d = 4 THEN "problem" ELSE "chapter",
                         fields |-> EmptyDict,
                         edit_info |-> [previous_version |-> None,
                                        original_version |-> d]]]
    /\ lastSid = 1
    /\ lastDid = 4
    /\ proc = [w \in Writers |-> Idle]
    /\ ops = 1

InheritCall(w) ==
    /\ ops > 0
    /\ ops' = ops - 1
    /\ proc[w].pc \in {"idle", "done"}
    /\ DbUnchanged
    /\ StartInherit(w, PubSource)

InheritNext == InheritCall(1) \/ LookupIndex(1) \/ LookupStructure(1) \/ Inherit(1)

InheritSpec == InheritInit /\ [][InheritNext]_vars

(* ------------------------- the thread's course cache ------------------ *)

\* One thread that creates items, continuing a version or not, and reads
\* items, on the store of one course.
MaxCacheOps == 4

\* The thread's cache is the field course_cache of its request; the thread
\* has no cache (has_cache) before its first _get_cache.
CacheInit ==
    /\ PubStore
    /\ proc = [w \in Writers |->
                 [pc |-> "idle", course_cache |-> EmptyDict, has_cache |-> FALSE]]
    /\ ops = MaxCacheOps

\* The thread starts create_item below the course of the draft head, or
\* get_item of a block by the branch or by a version.  cache_before is the
\* cache at the call, cache_step what the request has done to the cache,
\* system what _load_items handed to it.
CacheCall(w) ==
    LET locals == [course_cache |-> proc[w].course_cache,
                   has_cache |-> proc[w].has_cache,
                   cache_before |-> proc[w].course_cache,
                   cache_step |-> "none", system |-> Missing]
    IN
    /\ ops > 0
    /\ ops' = ops - 1
    /\ proc[w].pc \in {"idle", "done"}
    /\ DbUnchanged
    /\ \/ \E category \in {"chapter", "problem"}, continue_version \in BOOLEAN :
             proc' = [proc EXCEPT ![w] =
                        locals @@ CreateItemRequest(
                           CreateItemArgs(WithBlock(PubSource, <<"course", 0>>), category,
                                          NoName, None, EmptyDict, EmptyDict, FALSE,
                                          continue_version))]
       \/ \E l \in {PubSource} \cup {Locator(NoName, NoBranch, v, NoName) :
                                        v \in DOMAIN structures \cup {BogusId}},
             b \in {<<"course", 0>>, <<"chapter", 2>>, <<"problem", 2>>} :
             proc' = [proc EXCEPT ![w] =
                        locals @@ NewProc("get_item", [locator |-> WithBlock(l, b)],
                                          "lookup_index", WithBlock(l, b), <<"return_item">>)]

\* create_item, continuing, has updated the structure and has not yet
\* cleared the cache.
ClearDue(w) ==
    /\ proc[w].pc = "lookup_index"
    /\ proc[w].op = "create_item"
    /\ proc[w].args.continue_version
    /\ proc[w].todo = <<"return_item">>
    /\ proc[w].cache_step = "none"

\* A _clear_cache that leaves the entry where it is.
ClearCacheSkipped(w) ==
    /\ ClearDue(w)
    /\ DbUnchanged
    /\ UNCHANGED ops
    /\ proc' = [proc EXCEPT ![w].cache_step = "cleared"]

\* _clear_cache(new_id) of create_item: del course_cache[new_id].
ClearCache(w) ==
    /\ ClearDue(w)
    /\ DbUnchanged
    /\ UNCHANGED ops
    /\ IF ~proc[w].has_cache
       THEN Raise(w, "AttributeError")
       ELSE IF proc[w].new_structure._id \notin DOMAIN proc[w].course_cache
       THEN Raise(w, "KeyError")
       ELSE proc' = [proc EXCEPT ![w].course_cache =
                                    DictRemove(@, proc[w].new_structure._id),
                                 ![w].cache_step = "cleared"]

\* _load_items of get_item: the system cached for the structure's id, or
\* a new one made of the course entry just read and cached; get_item ends
\* with the block as the system knows it.
LoadItems(w) ==
    /\ proc[w].pc = "return_item"
    /\ proc[w].cache_step # "loaded"
    /\ DbUnchanged
    /\ UNCHANGED ops
    /\ IF IsMissing(proc[w].entry)
       THEN Raise(w, "TypeError")
       ELSE LET course_cache == proc[w].course_cache
                guid == proc[w].entry._id
                system == IF guid \in DOMAIN course_cache THEN course_cache[guid]
                          ELSE proc[w].entry
                loaded == [proc[w] EXCEPT !.course_cache = DictPut(course_cache, guid, system),
                                          !.has_cache = TRUE,
                                          !.cache_step = "loaded",
                                          !.system = system]
            IN IF proc[w].op = "get_item"
               THEN proc' = [proc EXCEPT ![w] =
                               [loaded EXCEPT
                                   !.pc = "done",
                                   !.out = [kind |-> IF proc[w].lk.block_id
                                                          \in DOMAIN system.blocks
                                                     THEN "ok" ELSE "ItemNotFoundError",
                                            head |-> None, id |-> guid]]]
               ELSE proc' = [proc EXCEPT ![w] = loaded]

\* The lookup of get_item comes after the _clear_cache of the caller.
CacheLookupIndex(w) == ~ClearDue(w) /\ LookupIndex(w)

\* get_item returns after _load_items.
CacheReturnItem(w) ==
    /\ proc[w].pc = "return_item"
    /\ proc[w].cache_step = "loaded"
    /\ ReturnItem(w)

CacheNext ==
    \/ CacheCall(1)
    \/ CacheLookupIndex(1)
    \/ LookupStructure(1)
    \/ IndexIfValid(1)
    \/ CreateDefinition(1)
    \/ CI_WriteStructure(1)
    \/ UpdateHead(1)
    \/ ClearCache(1)
    \/ LoadItems(1)
    \/ CacheReturnItem(1)

CacheSpec == CacheInit /\ [][CacheNext]_vars

(* ------------------------------ properties ---------------------------- *)

Ended(w) == proc[w].pc = "done"

BlockWrites == {"create_item", "update_item", "delete_item"}

\* The locator a write goes by: the destination for a publish.
Target(p) == IF p.op = "xblock_publish" THEN p.args.destination ELSE p.args.locator

Forced(p) == p.op # "xblock_publish" /\ p.args.force

Continued(p) == p.op # "xblock_publish" /\ p.args.continue_version

\* The request names a package and a branch that the index held when it
\* was called.
NamesBranch(p) ==
    /\ p.op \in BlockWrites \cup {"persist_xblock_dag", "xblock_publish"}
    /\ Target(p).package_id \in DOMAIN p.pre.indexes
    /\ Target(p).branch \in DOMAIN p.pre.indexes[Target(p).package_id].versions

HeadBefore(p) == p.pre.indexes[Target(p).package_id].versions[Target(p).branch]

\* The head of the request's branch now; None when the index or the branch
\* is gone.
HeadNow(p) ==
    IF /\ Target(p).package_id \in DOMAIN indexes
       /\ Target(p).branch \in DOMAIN indexes[Target(p).package_id].versions
    THEN indexes[Target(p).package_id].versions[Target(p).branch]
    ELSE None

\* The locator carries a version that was not the head at the call.
Stale(p) ==
    /\ NamesBranch(p)
    /\ Target(p).version_guid # None
    /\ Target(p).version_guid # HeadBefore(p)

NothingWritten(p) ==
    /\ indexes = p.pre.indexes
    /\ structures = p.pre.structures
    /\ definitions = p.pre.definitions

\* The structure the locator stood for at the call; None when there is none.
StructureBefore(p) ==
    LET l == Target(p)
        id == IF l.package_id = NoName THEN l.version_guid
              ELSE IF NamesBranch(p) THEN HeadBefore(p)
              ELSE None
    IN IF id \in DOMAIN p.pre.structures THEN id ELSE None

\* The descriptor of an update_item equals what was stored at the call.
Identical(p) ==
    /\ p.op = "update_item"
    /\ ~Stale(p)
    /\ StructureBefore(p) # None
    /\ LET d == p.args.descriptor
           blocks == p.pre.structures[StructureBefore(p)].blocks
       IN /\ d.locator.block_id \in DOMAIN blocks
          /\ LET block == blocks[d.locator.block_id]
             IN /\ block.definition \in DOMAIN p.pre.definitions
                /\ d.definition_locator = block.definition
                /\ d.content = p.pre.definitions[block.definition].fields
                /\ d.children = ChildrenOrEmpty(block.fields)
                /\ d.settings = DictRemove(block.fields, "children")

\* The publish goes to a branch the destination's index did not have.
ToNewBranch(p) ==
    /\ p.op = "xblock_publish"
    /\ p.args.destination.package_id \in DOMAIN p.pre.indexes
    /\ p.args.destination.branch
          \notin DOMAIN p.pre.indexes[p.args.destination.package_id].versions

\* A write without force, of a real change, through a locator that carries
\* H, the head of its branch at the call.
C1_Holder(p, H) ==
    /\ p.op \in BlockWrites
    /\ ~p.args.force
    /\ ~p.args.continue_version
    /\ NamesBranch(p)
    /\ Target(p).version_guid = H
    /\ HeadBefore(p) = H
    /\ ~Identical(p)

\* C1: two writers that hold the same head H of the same branch and both
\* write without force (create_item, update_item with a real change,
\* delete_item), interleaved in any order: at most one of the writes
\* succeeds, and a loser's VersionConflictError carries the winner's new head.
C1_OneWriterWins ==
    (/\ Ended(1)
     /\ Ended(2)
     /\ C1_Holder(proc[1], 2)
     /\ C1_Holder(proc[2], 2))
    => \E w \in Writers :
          LET other == 3 - w
          IN /\ proc[other].out.kind # "ok"
             /\ (/\ proc[w].out.kind = "ok"
                 /\ proc[other].out.kind = "VersionConflictError")
                => proc[other].out.head = proc[w].out.id

\* A write without force through a locator whose version is not the head.
C2_Request(p) == p.op \in BlockWrites /\ ~p.args.force /\ Stale(p)

\* C2: in a sequential run a non-forced create_item, update_item or
\* delete_item whose locator names a package, a branch and a version other
\* than the branch's head writes nothing at any of its steps, and ends with
\* a VersionConflictError that carries the head.
C2_StaleWriteConflicts ==
    (proc[1].pc # "idle" /\ C2_Request(proc[1]))
    => /\ NothingWritten(proc[1])
       /\ Ended(1) => /\ proc[1].out.kind = "VersionConflictError"
                      /\ proc[1].out.head = HeadBefore(proc[1])
                      /\ HeadNow(proc[1]) = HeadBefore(proc[1])

C2_Witness ==
    /\ Ended(1)
    /\ C2_Request(proc[1])
    /\ proc[1].op = "update_item"
    /\ proc[1].out.kind = "VersionConflictError"

\* A write that returned, and was not forced, to a branch of a package.
C3_Request(p) ==
    /\ NamesBranch(p)
    /\ ~Forced(p)
    /\ p.out.kind = "ok"

\* C3 as stated: after every successful non-forced write to a branch (by
\* create_item, update_item, delete_item, persist_xblock_dag or
\* xblock_publish) the head of the branch differs from what it was.
C3_HeadMoves ==
    (Ended(1) /\ C3_Request(proc[1])) => HeadNow(proc[1]) # HeadBefore(proc[1])

\* C3, amended: after every successful non-forced write to a branch that
\* does not continue a version (continue_version = False), the head of the
\* branch differs from what it was and names the structure just written;
\* so does the head of a branch that a publish has just made.
C3_HeadMovesUnlessContinued ==
    /\ (Ended(1) /\ C3_Request(proc[1]) /\ ~Continued(proc[1]))
       => /\ HeadNow(proc[1]) # HeadBefore(proc[1])
          /\ HeadNow(proc[1]) = proc[1].out.id
    /\ (Ended(1) /\ ToNewBranch(proc[1]) /\ proc[1].out.kind = "ok")
       => HeadNow(proc[1]) = proc[1].out.id

C3_Witness ==
    /\ Ended(1)
    /\ C3_Request(proc[1])
    /\ proc[1].op = "xblock_publish"
    /\ HeadNow(proc[1]) \notin DOMAIN proc[1].pre.structures

C5_ForcedWriteForks ==
    (/\ Ended(1)
     /\ proc[1].op \in BlockWrites
     /\ proc[1].args.force
     /\ ~proc[1].args.continue_version
     /\ Stale(proc[1]))
    => /\ proc[1].out.kind # "VersionConflictError"
       /\ proc[1].out.kind = "ok"
          => \E s \in DOMAIN structures \ DOMAIN proc[1].pre.structures :
                structures[s].previous_version = Target(proc[1]).version_guid

\* C6: update_item with a descriptor whose content, children and settings
\* equal what is stored returns the descriptor it was given and writes
\* nothing, however often it is repeated.
C6_IdenticalUpdateIsNoOp ==
    (Ended(1) /\ Identical(proc[1]))
    => /\ proc[1].out.kind = "unchanged"
       /\ NothingWritten(proc[1])

\* C7: at every point between two document-store calls every branch head
\* names a stored structure, and every block of every head structure a
\* stored definition (definitions are written first, then the structure,
\* then the index).
C7_HeadsResolve ==
    \A p \in DOMAIN indexes : \A b \in DOMAIN indexes[p].versions :
       LET head == indexes[p].versions[b]
       IN /\ head \in DOMAIN structures
          /\ \A block_id \in DOMAIN structures[head].blocks :
                structures[head].blocks[block_id].definition \in DOMAIN definitions

\* C8: after any sequence of public operations every version in every
\* stored index is the id of a stored structure.
C8_VersionsResolve ==
    (proc[1].pc \in {"idle", "done"})
    => \A p \in DOMAIN indexes : \A b \in DOMAIN indexes[p].versions :
          indexes[p].versions[b] \in DOMAIN structures

RECURSIVE Origin(_, _)
\* The structure a history starts from, found by walking previous_version.
Origin(s, fuel) ==
    IF structures[s].previous_version = None \/ fuel = 0 THEN s
    ELSE Origin(structures[s].previous_version, fuel - 1)

\* C9: a stored structure without a previous_version is its own
\* original_version; any other has the original_version of its predecessor,
\* which is not its own _id, so that every structure of a history names the
\* structure the history started from.
C9_OriginalVersion ==
    \A s \in DOMAIN structures :
       LET structure == structures[s]
       IN IF structure.previous_version = None
          THEN structure.original_version = structure._id
          ELSE /\ structure.original_version # structure._id
               /\ structure.previous_version \in DOMAIN structures
               /\ structure.original_version =
                     structures[structure.previous_version].original_version
               /\ structure.original_version = Origin(s, Cardinality(DOMAIN structures))

C9_Witness ==
    \E s \in DOMAIN structures :
       /\ structures[s].previous_version # None
       /\ structures[structures[s].previous_version].previous_version # None
       /\ structures[s].original_version = Origin(s, Cardinality(DOMAIN structures))

\* C10: every stored structure has a block for its root; delete_item of the
\* root ends with a ValueError and writes nothing; and a publish to a branch
\* that does not exist yet either publishes the root or fails and writes
\* nothing.
C10_RootExists ==
    /\ \A s \in DOMAIN structures : structures[s].root \in DOMAIN structures[s].blocks
    /\ (/\ Ended(1)
        /\ proc[1].op = "delete_item"
        /\ StructureBefore(proc[1]) # None
        /\ ~Stale(proc[1])
        /\ proc[1].pre.structures[StructureBefore(proc[1])].root
              = proc[1].args.locator.block_id)
       => (proc[1].out.kind = "ValueError" /\ NothingWritten(proc[1]))
    /\ (Ended(1) /\ ToNewBranch(proc[1]))
       => IF proc[1].out.kind = "ok"
          THEN structures[proc[1].out.id].root \in DOMAIN structures[proc[1].out.id].blocks
          ELSE NothingWritten(proc[1])

\* The version a locator stood for in the stored documents db (as
\* _lookup_course resolves it; None when the index or the branch is gone).
ResolvedIn(locator, db) ==
    IF locator.package_id # NoName /\ locator.branch # NoBranch
    THEN IF /\ locator.package_id \in DOMAIN db.indexes
            /\ locator.branch \in DOMAIN db.indexes[locator.package_id].versions
         THEN db.indexes[locator.package_id].versions[locator.branch]
         ELSE None
    ELSE locator.version_guid

\* The publish found its source structure and its destination's index.
PublishReady(p) ==
    /\ p.op = "xblock_publish"
    /\ ResolvedIn(p.args.source, p.pre) \in DOMAIN p.pre.structures
    /\ p.args.destination.package_id \in DOMAIN p.pre.indexes

SourceBlocks(p) == p.pre.structures[ResolvedIn(p.args.source, p.pre)].blocks

\* The blocks of the destination branch's head at the call; none when the
\* branch did not exist.
DestinationBefore(p) ==
    IF NamesBranch(p) /\ HeadBefore(p) \in DOMAIN p.pre.structures
    THEN p.pre.structures[HeadBefore(p)].blocks
    ELSE EmptyDict

\* The blocks of the destination branch's head now.
DestinationNow(p) ==
    IF HeadNow(p) \in DOMAIN structures THEN structures[HeadNow(p)].blocks ELSE EmptyDict

RECURSIVE Reach(_, _, _)
\* The blocks reached from the ids in frontier through children lists.
Reach(frontier, seen, blocks) ==
    LET fresh == (frontier \cap DOMAIN blocks) \ seen
    IN IF fresh = {} THEN seen
       ELSE Reach(UNION {SeqToSet(ChildrenOrEmpty(blocks[b].fields)) : b \in fresh},
                  seen \cup fresh, blocks)

SubtreeOf(block_id, blocks) == Reach({block_id}, {}, blocks)

\* Same category, definition, children list and other fields (a missing
\* children list counts as an empty one).
FieldEquivalent(a, b) ==
    /\ a.category = b.category
    /\ a.definition = b.definition
    /\ ChildrenOrEmpty(a.fields) = ChildrenOrEmpty(b.fields)
    /\ DictRemove(a.fields, "children") = DictRemove(b.fields, "children")

\* C11 as stated: once a structure is stored, no step of any operation
\* other than create_item with continue_version = True changes it.
C11_StructuresImmutable ==
    [][\A s \in DOMAIN structures :
          /\ s \in DOMAIN structures'
          /\ structures'[s] # structures[s]
                => /\ proc[1].pc # "idle"
                   /\ proc[1].op = "create_item"
                   /\ proc[1].args.continue_version]_vars

\* C11, amended: once a structure is stored it is never removed, and the
\* only steps that change it are the write of create_item with
\* continue_version = True and the write of internal_clean_children.
C11_StructuresImmutableButCleaned ==
    [][\A s \in DOMAIN structures :
          /\ s \in DOMAIN structures'
          /\ structures'[s] # structures[s]
                => /\ proc[1].pc \in {"ci_structure", "icc_structure"}
                   /\ proc[1].guid = s
                   /\ \/ proc[1].op = "create_item" /\ proc[1].args.continue_version
                      \/ proc[1].op = "internal_clean_children"]_vars

C11_Witness ==
    /\ Ended(1)
    /\ proc[1].op = "internal_clean_children"
    /\ proc[1].out.kind = "ok"
    /\ \E s \in DOMAIN proc[1].pre.structures :
          structures[s].blocks # proc[1].pre.structures[s].blocks

\* C12: after a successful xblock_publish of one subtree root r with an
\* empty blacklist, every block of the source's subtree at r is in the
\* destination with the same category, definition and fields.
C12_PublishCopiesSubtree ==
    (/\ Ended(1)
     /\ PublishReady(proc[1])
     /\ proc[1].out.kind = "ok"
     /\ proc[1].args.blacklist = {}
     /\ Len(proc[1].args.subtree_list) = 1)
    => \A b \in SubtreeOf(proc[1].args.subtree_list[1], SourceBlocks(proc[1])) :
          /\ b \in DOMAIN DestinationNow(proc[1])
          /\ FieldEquivalent(SourceBlocks(proc[1])[b], DestinationNow(proc[1])[b])

\* What the loop of the publish over subtree_list makes of the destination
\* it started from: the blocks and the orphans collected.
PublishedFrom(p, destination_blocks) ==
    PublishSubtrees(p.args.subtree_list, SourceBlocks(p),
                    Pub(destination_blocks, {}), p.args.blacklist)

\* C13: after a successful xblock_publish no block collected as an orphan
\* is left in the destination without a parent, and no descendant of a
\* deleted orphan is left there without a parent.
C13_OrphansDeleted ==
    (Ended(1) /\ PublishReady(proc[1]) /\ proc[1].out.kind = "ok")
    => LET published == PublishedFrom(proc[1], DestinationBefore(proc[1]))
           now == DestinationNow(proc[1])
           deleted == published.orphans \ DOMAIN now
       IN /\ \A orphan \in published.orphans \cap DOMAIN now :
                ParentsIn(orphan, now) # {}
          /\ \A orphan \in deleted :
                \A b \in SubtreeOf(orphan, published.blocks) \cap DOMAIN now :
                   ParentsIn(b, now) # {}

\* The head of the destination at the call is what this very publish
\* yields from the head's predecessor (from nothing, for a first version).
RepeatsPublish(p) ==
    /\ PublishReady(p)
    /\ NamesBranch(p)
    /\ HeadBefore(p) \in DOMAIN p.pre.structures
    /\ LET first == p.pre.structures[HeadBefore(p)]
           base == IF first.previous_version = None THEN EmptyDict
                   ELSE p.pre.structures[first.previous_version].blocks
           published == PublishedFrom(p, base)
       IN /\ first.previous_version \in {None} \cup DOMAIN p.pre.structures
          /\ ~IsFailed(published)
          /\ \E order \in Orders(published.orphans) :
                LET cleaned == DeleteOrphans(order, published.blocks, 1)
                IN ~IsFailed(cleaned) /\ cleaned.blocks = first.blocks

\* C14: an xblock_publish run again with the same source version,
\* destination, subtree list and blacklist leaves the blocks of the
\* destination's head (ids, category, definition, fields, edit_info) as the
\* first run left them.
C14_RepublishIsNoOp ==
    (Ended(1) /\ RepeatsPublish(proc[1]))
    => DestinationNow(proc[1]) = DestinationBefore(proc[1])

\* C15: xblock_publish adds no blacklisted block: a blacklisted id that is
\* not a block of the destination before the publish is none after it.
C15_BlacklistNotAdded ==
    (Ended(1) /\ proc[1].op = "xblock_publish")
    => \A b \in proc[1].args.blacklist :
          b \notin DOMAIN DestinationBefore(proc[1])
             => b \notin DOMAIN DestinationNow(proc[1])

\* C16: xblock_publish leaves the blacklisted blocks of the destination as
\* they are: each is still there after the publish, with the same entry.
C16_BlacklistUnchanged ==
    (Ended(1) /\ proc[1].op = "xblock_publish")
    => \A b \in proc[1].args.blacklist \cap DOMAIN DestinationBefore(proc[1]) :
          /\ b \in DOMAIN DestinationNow(proc[1])
          /\ DestinationNow(proc[1])[b] = DestinationBefore(proc[1])[b]

\* The loop of the publish comes to a subtree root one of whose parents in
\* the source is not in the destination as the earlier roots left it.
MeetsMissingParent(p) ==
    /\ PublishReady(p)
    /\ NamesBranch(p) \/ InSeq(p.pre.structures[ResolvedIn(p.args.source, p.pre)].root,
                               p.args.subtree_list)
    /\ \E i \in DOMAIN p.args.subtree_list :
          LET before == PublishSubtrees(SubSeq(p.args.subtree_list, 1, i - 1),
                                        SourceBlocks(p),
                                        Pub(DestinationBefore(p), {}), p.args.blacklist)
          IN /\ ~IsFailed(before)
             /\ ~(ParentsIn(p.args.subtree_list[i], SourceBlocks(p))
                     \subseteq DOMAIN before.blocks)

\* C17: an xblock_publish that comes to a subtree root with a parent in the
\* source that the destination lacks ends with ItemNotFoundError, and at no
\* step inserts a structure or moves a head, whatever earlier roots did.
C17_MissingParentFails ==
    (proc[1].pc # "idle" /\ MeetsMissingParent(proc[1]))
    => /\ NothingWritten(proc[1])
       /\ Ended(1) => proc[1].out.kind = "ItemNotFoundError"

C17_Witness ==
    /\ Ended(1)
    /\ MeetsMissingParent(proc[1])
    /\ Len(proc[1].args.subtree_list) = 2
    /\ LET before == PublishSubtrees(<<proc[1].args.subtree_list[1]>>,
                                     SourceBlocks(proc[1]),
                                     Pub(DestinationBefore(proc[1]), {}),
                                     proc[1].args.blacklist)
       IN /\ ~IsFailed(before)
          /\ before.blocks # DestinationBefore(proc[1])
          /\ ~(ParentsIn(proc[1].args.subtree_list[2], SourceBlocks(proc[1]))
                  \subseteq DOMAIN before.blocks)
    /\ proc[1].out.kind = "ItemNotFoundError"

\* create_course called with a versions_dict that names the master branch.
CloneCall(p) ==
    /\ p.op = "create_course"
    /\ p.args.has_versions_dict
    /\ p.args.master_branch \in DOMAIN p.args.versions_dict

NoContentOverrides(p) == _filter_special_fields(p.args.content) = EmptyDict

NoOverrides(p) == NoContentOverrides(p) /\ p.args.settings = EmptyDict

\* The definition of the root block of stored structure id.
RootDefinition(id, db) == db.structures[id].blocks[db.structures[id].root].definition

\* C18: create_course with a versions_dict and no content fields, with or
\* without settings fields, inserts no definition at any step, and the root
\* block of the new index's master branch has the definition of the root
\* block of the structure that versions_dict named.
C18_CloneSharesDefinition ==
    (proc[1].pc # "idle" /\ CloneCall(proc[1]) /\ NoContentOverrides(proc[1]))
    => /\ definitions = proc[1].pre.definitions
       /\ (Ended(1) /\ proc[1].out.kind = "ok")
          => LET p == proc[1]
                 head == indexes[p.package_id].versions[p.args.master_branch]
             IN RootDefinition(head, DbSnapshot)
                   = RootDefinition(p.args.versions_dict[p.args.master_branch], p.pre)

\* C19: create_course with a versions_dict that names the master branch and
\* no fields inserts no structure and no definition at any step, and when
\* it returns exactly one index has been inserted, whose master branch is
\* at the given structure.
C19_CloneInsertsOnlyIndex ==
    (proc[1].pc # "idle" /\ CloneCall(proc[1]) /\ NoOverrides(proc[1]))
    => /\ structures = proc[1].pre.structures
       /\ definitions = proc[1].pre.definitions
       /\ (Ended(1) /\ proc[1].out.kind = "ok")
          => LET p == proc[1]
             IN /\ p.package_id \notin DOMAIN p.pre.indexes
                /\ DOMAIN indexes = DOMAIN p.pre.indexes \cup {p.package_id}
                /\ \A i \in DOMAIN p.pre.indexes : indexes[i] = p.pre.indexes[i]
                /\ indexes[p.package_id].versions[p.args.master_branch]
                      = p.args.versions_dict[p.args.master_branch]

C19_Witness ==
    /\ Ended(1)
    /\ CloneCall(proc[1])
    /\ NoOverrides(proc[1])
    /\ proc[1].out.kind = "ok"
    /\ Cardinality(DOMAIN indexes) = 2
    /\ Cardinality(DOMAIN structures) = 1

\* C20: delete_course removes the index of the package and nothing else:
\* at every step the structures and definitions are as stored before; and
\* a create_course with no fields and the versions of an index that is gone
\* (or any other versions_dict) returns with an index at those versions.
C20_DeleteKeepsHistory ==
    /\ (proc[1].pc # "idle" /\ proc[1].op = "delete_course")
       => /\ structures = proc[1].pre.structures
          /\ definitions = proc[1].pre.definitions
          /\ (Ended(1) /\ proc[1].out.kind = "ok")
             => indexes = DictRemove(proc[1].pre.indexes, proc[1].args.package_id)
    /\ (Ended(1) /\ CloneCall(proc[1]) /\ NoOverrides(proc[1]) /\ proc[1].out.kind = "ok")
       => indexes[proc[1].package_id].versions = proc[1].args.versions_dict

\* A course is back after its index was deleted: no index was stored at the
\* call, and the new index is at the structure the old one was at.
C20_Witness ==
    /\ Ended(1)
    /\ CloneCall(proc[1])
    /\ NoOverrides(proc[1])
    /\ proc[1].out.kind = "ok"
    /\ proc[1].pre.indexes = EmptyDict
    /\ indexes[proc[1].package_id].versions[proc[1].args.master_branch]
          \in DOMAIN proc[1].pre.structures

\* A create_item that continues a version, by a locator that names a branch
\* at its head (or names no version).
ContinuesHead(p) ==
    /\ p.op = "create_item"
    /\ p.args.continue_version
    /\ NamesBranch(p)
    /\ ~Stale(p)

\* The locator of the request has no package_id or no branch.
LacksCourse(p) ==
    p.args.locator.package_id = NoName \/ p.args.locator.branch = NoBranch

\* C21: create_item with continue_version=True on the head of a branch
\* inserts no Structure and leaves every index as it was; when it returns,
\* the head Structure, under the same _id, has one block more, and the head
\* of the branch is the same. With a locator that lacks the package_id or
\* the branch it raises InsufficientSpecificationError and writes nothing.
C21_ContinueWritesInPlace ==
    \A w \in Writers :
       LET p == proc[w] IN
       /\ (p.pc # "idle" /\ ContinuesHead(p)) =>
             /\ DOMAIN structures = DOMAIN p.pre.structures
             /\ indexes = p.pre.indexes
             /\ (Ended(w) /\ p.out.kind = "ok") =>
                   LET before == p.pre.structures[HeadBefore(p)]
                       now == structures[HeadBefore(p)]
                   IN /\ p.out.id = HeadBefore(p)
                      /\ now._id = before._id
                      /\ DOMAIN before.blocks \subseteq DOMAIN now.blocks
                      /\ Cardinality(DOMAIN now.blocks \ DOMAIN before.blocks) = 1
                      /\ HeadNow(p) = HeadBefore(p)
       /\ (/\ Ended(w)
           /\ p.op = "create_item"
           /\ p.args.continue_version
           /\ LacksCourse(p)) =>
             /\ p.out.kind = "InsufficientSpecificationError"
             /\ NothingWritten(p)

\* A continued create_item at the head has returned and the head Structure
\* has changed under its _id.
C21_Witness ==
    \E w \in Writers :
       /\ Ended(w)
       /\ ContinuesHead(proc[w])
       /\ ~proc[w].args.force
       /\ proc[w].out.kind = "ok"
       /\ structures # proc[w].pre.structures
       /\ DOMAIN structures = DOMAIN proc[w].pre.structures

\* A continued create_item by a locator without a course has been refused.
C21_Refused ==
    \E w \in Writers :
       /\ Ended(w)
       /\ proc[w].op = "create_item"
       /\ proc[w].args.continue_version
       /\ LacksCourse(proc[w])

\* A create_item called with both force and continue_version.
ForcedAndContinued(p) ==
    /\ p.op = "create_item"
    /\ p.args.force
    /\ p.args.continue_version

\* C22: create_item called with force=True and continue_version=True raises
\* VersionConflictError and writes nothing, whatever its locator.
C22_ForceExcludesContinue ==
    \A w \in Writers :
       (Ended(w) /\ ForcedAndContinued(proc[w])) =>
          /\ proc[w].out.kind = "VersionConflictError"
          /\ NothingWritten(proc[w])

\* A create_item with both flags, at the head of its branch, has returned.
C22_AtHead ==
    \E w \in Writers :
       /\ Ended(w)
       /\ ForcedAndContinued(proc[w])
       /\ ContinuesHead(proc[w])
       /\ proc[w].out.kind = "ok"

\* A create_item with both flags, by a stale version, has been refused.
C22_Stale ==
    \E w \in Writers :
       /\ Ended(w)
       /\ ForcedAndContinued(proc[w])
       /\ Stale(proc[w])
       /\ proc[w].out.kind = "VersionConflictError"
       /\ NothingWritten(proc[w])

\* A create_item that names, as the id of the new block, a block of the
\* structure its locator stood for at the call.
Duplicates(p) ==
    /\ p.op = "create_item"
    /\ p.args.block_id # NoName
    /\ ~Stale(p)
    /\ StructureBefore(p) # None
    /\ p.args.block_id \in DOMAIN p.pre.structures[StructureBefore(p)].blocks

\* C23: create_item with a block_id that is already a block of the structure
\* fails with DuplicateItemError; no Structure is inserted or updated and no
\* branch head moves, with continue_version or without.
C23_DuplicateFails ==
    \A w \in Writers :
       (proc[w].pc # "idle" /\ Duplicates(proc[w])) =>
          /\ structures = proc[w].pre.structures
          /\ indexes = proc[w].pre.indexes
          /\ Ended(w) => proc[w].out.kind = "DuplicateItemError"

\* A continued create_item of a block that exists has been refused.
C23_Witness ==
    \E w \in Writers :
       /\ Ended(w)
       /\ Duplicates(proc[w])
       /\ proc[w].args.continue_version
       /\ proc[w].out.kind = "DuplicateItemError"

\* A create_item of a block that exists, without continue_version, has been
\* refused after it had inserted a Definition.
C23_Plain ==
    \E w \in Writers :
       /\ Ended(w)
       /\ Duplicates(proc[w])
       /\ ~proc[w].args.continue_version
       /\ proc[w].out.kind = "DuplicateItemError"
       /\ definitions # proc[w].pre.definitions

\* A create_item without continue_version, below a block of the structure
\* its locator stood for, that has returned.
CreatedBelowParent(p) ==
    /\ p.op = "create_item"
    /\ ~p.args.continue_version
    /\ p.out.kind = "ok"
    /\ StructureBefore(p) # None
    /\ p.args.locator.block_id \in DOMAIN p.pre.structures[StructureBefore(p)].blocks

\* C24: after create_item below a parent, without continue_version, the new
\* Structure has one block more than the prior one; the new block is the
\* last child of the parent, with previous_version null and update_version
\* the new Structure's id; the parent has update_version the new id and
\* previous_version its former update_version; every other block is as in
\* the prior Structure.
C24_CreateItemUnderParent ==
    \A w \in Writers :
       (Ended(w) /\ CreatedBelowParent(proc[w])) =>
          LET p == proc[w]
              prior == p.pre.structures[StructureBefore(p)].blocks
              new_id == p.out.id
              blocks == structures[new_id].blocks
              parent_id == p.args.locator.block_id
              added == DOMAIN blocks \ DOMAIN prior
          IN /\ new_id \notin DOMAIN p.pre.structures
             /\ DOMAIN prior \subseteq DOMAIN blocks
             /\ Cardinality(added) = 1
             /\ \A x \in added :
                   /\ blocks[parent_id].fields["children"]
                         = Append(ChildrenOrEmpty(prior[parent_id].fields), x)
                   /\ blocks[x].edit_info
                         = [previous_version |-> None, update_version |-> new_id]
             /\ blocks[parent_id].edit_info
                   = [previous_version |-> prior[parent_id].edit_info.update_version,
                      update_version |-> new_id]
             /\ \A b \in DOMAIN prior \ {parent_id} : blocks[b] = prior[b]

\* A block has been created below a parent that had a child already.
C24_Witness ==
    \E w \in Writers :
       /\ Ended(w)
       /\ CreatedBelowParent(proc[w])
       /\ LET p == proc[w]
              prior == p.pre.structures[StructureBefore(p)].blocks
          IN /\ ChildrenOrEmpty(prior[p.args.locator.block_id].fields) # <<>>
             /\ Cardinality(DOMAIN prior) > 1

\* A create_item that names a stored Definition and gives no content, and
\* has returned.
ReusesDefinition(p) ==
    /\ p.op = "create_item"
    /\ p.args.definition_locator \in DOMAIN p.pre.definitions
    /\ p.args.content = EmptyDict
    /\ p.out.kind = "ok"
    /\ StructureBefore(p) # None

\* C25: create_item with the locator of a stored Definition and no content
\* fields makes the new block point to that Definition and inserts no
\* Definition.
C25_CreateItemReusesDefinition ==
    \A w \in Writers :
       (Ended(w) /\ ReusesDefinition(proc[w])) =>
          LET p == proc[w]
              prior == p.pre.structures[StructureBefore(p)].blocks
              blocks == structures[p.out.id].blocks
          IN /\ DOMAIN definitions = DOMAIN p.pre.definitions
             /\ \A x \in DOMAIN blocks \ DOMAIN prior :
                   blocks[x].definition = p.args.definition_locator

\* Such a create_item has returned and the Definition it named had no
\* fields: the new block points to it and no Definition was inserted.
C25_EmptyDefinition ==
    \E w \in Writers :
       /\ Ended(w)
       /\ ReusesDefinition(proc[w])
       /\ proc[w].pre.definitions[proc[w].args.definition_locator].fields = EmptyDict
       /\ DOMAIN definitions = DOMAIN proc[w].pre.definitions

\* A delete_item that has returned.
Deleted(p) ==
    /\ p.op = "delete_item"
    /\ p.out.kind = "ok"
    /\ StructureBefore(p) # None

\* The blocks of the structure the request's locator stood for at the call.
PriorBlocks(p) == p.pre.structures[StructureBefore(p)].blocks

\* The blocks of the structure the request made.
NewBlocks(p) == structures[p.out.id].blocks

\* No children list of blocks names a block twice.
NoRepeatedChild(blocks) ==
    \A b \in DOMAIN blocks :
       \A x \in SeqToSet(ChildrenOrEmpty(blocks[b].fields)) :
          Occurrences(ChildrenOrEmpty(blocks[b].fields), x) = 1

\* No block of blocks is reachable from itself through children.
Acyclic(blocks) ==
    \A b \in DOMAIN blocks :
       b \notin Reach(SeqToSet(ChildrenOrEmpty(blocks[b].fields)), {}, blocks)

\* C26: in the Structure a successful delete_item of x makes, x is no block
\* and no block's child, and every block that had x as a child has
\* update_version the new Structure's id and previous_version its former
\* update_version.
C26_DeleteUnlinks ==
    \A w \in Writers :
       (Ended(w) /\ Deleted(proc[w])) =>
          LET p == proc[w]
              x == p.args.locator.block_id
          IN /\ x \notin DOMAIN NewBlocks(p)
             /\ ParentsIn(x, NewBlocks(p)) = {}
             /\ \A b \in ParentsIn(x, PriorBlocks(p)) :
                   /\ b \in DOMAIN NewBlocks(p)
                   /\ NewBlocks(p)[b].edit_info
                         = [previous_version |-> PriorBlocks(p)[b].edit_info.update_version,
                            update_version |-> p.out.id]

\* A delete_item without delete_children that has returned.
DeletedAlone(p) == Deleted(p) /\ ~p.args.delete_children

\* The children of x in blocks that are blocks, have no parent but x and
\* are not of a detached category.
OnlyChildren(x, blocks) ==
    {c \in SeqToSet(ChildrenOrEmpty(blocks[x].fields)) \cap DOMAIN blocks :
        /\ ParentsIn(c, blocks) \subseteq {x}
        /\ blocks[c].category \notin DetachedCategories}

DeletesSubtree(p) ==
    /\ p.op = "delete_item"
    /\ p.args.delete_children
    /\ ~Stale(p)
    /\ StructureBefore(p) # None
    /\ LET blocks == PriorBlocks(p)
       IN /\ p.args.locator.block_id \in DOMAIN blocks
          /\ p.args.locator.block_id # p.pre.structures[StructureBefore(p)].root
          /\ Acyclic(blocks)
          /\ NoRepeatedChild(blocks)
          /\ \A b \in DOMAIN blocks :
                SeqToSet(ChildrenOrEmpty(blocks[b].fields)) \subseteq DOMAIN blocks

\* C28: delete_item of x with delete_children succeeds on every acyclic
\* block graph, blocks with more than one parent included, and the blocks
\* of the new Structure are the prior blocks but x and every block
\* reachable from x through children.
C28_DeleteSubtree ==
    \A w \in Writers :
       (Ended(w) /\ DeletesSubtree(proc[w])) =>
          LET p == proc[w]
          IN /\ p.out.kind = "ok"
             /\ DOMAIN NewBlocks(p)
                   = DOMAIN PriorBlocks(p)
                        \ SubtreeOf(p.args.locator.block_id, PriorBlocks(p))

\* A subtree in which every block has one parent has been deleted, and the
\* blocks left are the prior ones but the subtree's.
C28_Tree ==
    \E w \in Writers :
       /\ Ended(w)
       /\ DeletesSubtree(proc[w])
       /\ proc[w].out.kind = "ok"
       /\ LET p == proc[w]
              subtree == SubtreeOf(p.args.locator.block_id, PriorBlocks(p))
          IN /\ Cardinality(subtree) > 1
             /\ DOMAIN NewBlocks(p) = DOMAIN PriorBlocks(p) \ subtree

\* What has_item was asked for did not exist at the call: the package, the
\* branch, a Structure of the version named, or the block in the Structure.
NotThere(p) ==
    LET l == p.args.locator
    IN \/ /\ l.package_id # NoName
          /\ l.branch # NoBranch
          /\ \/ l.package_id \notin DOMAIN p.pre.indexes
             \/ l.branch \notin DOMAIN p.pre.indexes[l.package_id].versions
       \/ l.version_guid # None /\ l.version_guid \notin DOMAIN p.pre.structures
       \/ /\ StructureBefore(p) # None
          /\ l.block_id \notin DOMAIN PriorBlocks(p)

\* C29: has_item answers False, and raises nothing, when the course or the
\* block does not exist for the version given: an unknown package_id, an
\* unknown branch, a version_guid of no stored Structure, or a block_id
\* that is not in the Structure.
C29_HasItemFalse ==
    \A w \in Writers :
       (/\ Ended(w)
        /\ proc[w].op = "has_item"
        /\ proc[w].args.locator.block_id # NoName
        /\ NotThere(proc[w])) => proc[w].out.kind = "False"

\* has_item, asked by a version alone that no Structure has, has raised.
C29_UnknownVersion ==
    \E w \in Writers :
       /\ Ended(w)
       /\ proc[w].op = "has_item"
       /\ proc[w].args.locator.package_id = NoName
       /\ proc[w].args.locator.version_guid \notin DOMAIN proc[w].pre.structures
       /\ proc[w].out.kind = "TypeError"

\* has_item, asked for a branch the course has not, has answered False.
C29_UnknownBranch ==
    \E w \in Writers :
       /\ Ended(w)
       /\ proc[w].op = "has_item"
       /\ proc[w].args.locator.package_id \in DOMAIN proc[w].pre.indexes
       /\ proc[w].args.locator.branch
             \notin DOMAIN proc[w].pre.indexes[proc[w].args.locator.package_id].versions
       /\ proc[w].out.kind = "False"

RECURSIVE AncestorsAt(_, _, _)
\* The blocks from which a path of k children steps leads to x.
AncestorsAt(x, k, blocks) ==
    IF k = 0 THEN {x}
    ELSE UNION {ParentsIn(z, blocks) : z \in AncestorsAt(x, k - 1, blocks)}

RECURSIVE NearestValues(_, _, _, _, _)
\* The values of field f in the nearest ancestors of x, at k steps or more,
\* among the blocks of reached that set f; {} when no ancestor sets it.
NearestValues(x, f, blocks, reached, k) ==
    IF k > Cardinality(DOMAIN blocks) THEN {}
    ELSE LET setters == {y \in AncestorsAt(x, k, blocks) \cap reached :
                            f \in DOMAIN blocks[y].fields}
         IN IF setters # {} THEN {blocks[y].fields[f] : y \in setters}
            ELSE NearestValues(x, f, blocks, reached, k + 1)

\* An inherit_settings that has been run from the root of a structure.
Inherited(p) == p.op = "inherit_settings" /\ p.out.kind = "ok"

\* After the run, block x has for every inheritable field the value of a
\* nearest ancestor that sets it, and no value when no ancestor sets it.
InheritsNearest(x, blocks, result) ==
    /\ "_inherited_settings" \in DOMAIN result[x]
    /\ \A f \in InheritableFields :
          LET values == NearestValues(x, f, blocks, SubtreeOf(<<"course", 0>>, blocks), 1)
              inherited == result[x]["_inherited_settings"]
          IN IF values = {} THEN f \notin DOMAIN inherited
             ELSE f \in DOMAIN inherited /\ inherited[f] \in values

\* C30: after inherit_settings is run from the root over a block map, every
\* block reached has, for every inheritable field f, in _inherited_settings
\* the value of f in the nearest ancestor that sets f in its own fields,
\* and no f when no ancestor sets it.
C30_InheritsFromNearest ==
    \A w \in Writers :
       (Ended(w) /\ Inherited(proc[w])) =>
          LET blocks == proc[w].entry.blocks
          IN \A x \in SubtreeOf(proc[w].entry.root, blocks) :
                InheritsNearest(x, blocks, proc[w].new_structure.blocks)

\* Every block has at most one parent.
IsTree(blocks) == \A b \in DOMAIN blocks : Cardinality(ParentsIn(b, blocks)) <= 1

\* The run is over a tree three levels deep in which two ancestors set the
\* field, and the problem has the value of the nearer one.
C30_Tree ==
    \E w \in Writers :
       /\ Ended(w)
       /\ Inherited(proc[w])
       /\ IsTree(proc[w].entry.blocks)
       /\ LET blocks == proc[w].entry.blocks
              x == <<"problem", 1>>
          IN /\ AncestorsAt(x, 2, blocks) # {}
             /\ \A y \in AncestorsAt(x, 1, blocks) \cup AncestorsAt(x, 2, blocks) :
                   "start" \in DOMAIN blocks[y].fields
             /\ InheritsNearest(x, blocks, proc[w].new_structure.blocks)

\* The lowest serial (0 for no suffix) that makes id_root an id no index of
\* db has.
LowestFree(id_root, db) ==
    CHOOSE n \in 0..(Cardinality(DOMAIN db.indexes)) :
       /\ <<id_root, n>> \notin DOMAIN db.indexes
       /\ \A m \in 0..(n - 1) : <<id_root, m>> \in DOMAIN db.indexes

\* C31: the package_id create_course chooses is id_root with the lowest
\* suffix (none when it can be) that no Index id has; it is id_root itself
\* whenever no Index has that id.
C31_LowestFreePackageId ==
    \A w \in Writers :
       (Ended(w) /\ proc[w].op = "create_course" /\ proc[w].out.kind = "ok") =>
          DOMAIN indexes \ DOMAIN proc[w].pre.indexes
             = {<<proc[w].args.id_root, LowestFree(proc[w].args.id_root, proc[w].pre)>>}

\* A course has been created while an Index had id_root itself as its id,
\* and the new Index has the lowest free suffix.
C31_Suffixed ==
    \E w \in Writers :
       /\ Ended(w)
       /\ proc[w].op = "create_course"
       /\ proc[w].out.kind = "ok"
       /\ <<proc[w].args.id_root, 0>> \in DOMAIN proc[w].pre.indexes
       /\ DOMAIN indexes \ DOMAIN proc[w].pre.indexes
             = {<<proc[w].args.id_root, LowestFree(proc[w].args.id_root, proc[w].pre)>>}

RECURSIVE IsSubsequence(_, _)
\* a is b with some elements left out.
IsSubsequence(a, b) ==
    IF a = <<>> THEN TRUE
    ELSE IF b = <<>> THEN FALSE
    ELSE IF Head(a) = Head(b) THEN IsSubsequence(Tail(a), Tail(b))
    ELSE IsSubsequence(a, Tail(b))

\* The children lists a destination parent is given: the orderings of the
\* sets of three block ids.
SyncDestinations ==
    UNION {Orders(T) : T \in SUBSET {<<"chapter", 1>>, <<"chapter", 2>>, <<"problem", 1>>}}

\* What C32 says of _sync_children for the source children S, the
\* destination children D and the subtree root r.
SyncsAsSource(S, D, r) ==
    LET synced == _sync_children([fields |-> "children" :> S],
                                 [fields |-> "children" :> D], r)
        kept == {x \in SeqToSet(S) : x = r \/ x \in SeqToSet(D)}
    IN /\ SeqToSet(synced.destination_reordered) = kept
       /\ \A x \in kept : Occurrences(synced.destination_reordered, x) = Occurrences(S, x)
       /\ IsSubsequence(synced.destination_reordered, S)
       /\ synced.orphans = SeqToSet(D) \ SeqToSet(S)

\* C32: _sync_children, for a source parent with children S, a destination
\* parent with children D and the subtree root r, makes the destination's
\* children the subsequence of S of the ids that are r or are in D, in S's
\* order, and returns as orphans the ids of D that are not in S.  (S and r
\* as a publish met them, D every list of SyncDestinations.)
C32_SyncChildren ==
    \A w \in Writers :
       (Ended(w) /\ PublishReady(proc[w])) =>
          \A i \in DOMAIN proc[w].args.subtree_list :
             LET r == proc[w].args.subtree_list[i]
                 blocks == SourceBlocks(proc[w])
             IN \A q \in ParentsIn(r, blocks) :
                   \A D \in SyncDestinations :
                      SyncsAsSource(blocks[q].fields["children"], D, r)

\* A publish has ended whose subtree root has a sibling in the source: the
\* destination lists, in the other order or with a stranger, are among the
\* inputs.
C32_Witness ==
    \E w \in Writers :
       /\ Ended(w)
       /\ PublishReady(proc[w])
       /\ proc[w].out.kind = "ok"
       /\ \E i \in DOMAIN proc[w].args.subtree_list :
             LET r == proc[w].args.subtree_list[i]
                 blocks == SourceBlocks(proc[w])
             IN \E q \in ParentsIn(r, blocks), D \in SyncDestinations :
                   LET S == blocks[q].fields["children"]
                       synced == _sync_children([fields |-> "children" :> S],
                                                [fields |-> "children" :> D], r)
                   IN /\ Len(S) > 1
                      /\ Len(D) > 1
                      /\ synced.orphans # {}
                      /\ Len(synced.destination_reordered) > 1
                      /\ SyncsAsSource(S, D, r)

\* The publish of the single subtree root, whose block the destination
\* already holds in the source's update_version.
PublishesSameVersion(p) ==
    /\ PublishReady(p)
    /\ p.out.kind = "ok"
    /\ Len(p.args.subtree_list) = 1
    /\ LET b == p.args.subtree_list[1]
       IN /\ b \in DOMAIN SourceBlocks(p)
          /\ b \in DOMAIN DestinationBefore(p)
          /\ DestinationBefore(p)[b].edit_info.update_version
                = SourceBlocks(p)[b].edit_info.update_version

GivenFields(p) == [k \in DOMAIN p.args.content \ {"location", "category"} |-> p.args.content[k]]

\* update_definition_from_data of writer w returns in this step.
DefinitionReturns(w) ==
    /\ proc[w].pc \in {"get_definition", "insert_definition"}
    /\ proc'[w].pc \notin {"get_definition", "insert_definition"}
    /\ proc'[w].out.kind # "ItemNotFoundError"

\* C34: update_definition_from_data on the stored definition d returns
\* (d, false) and inserts nothing when the given fields (without location
\* and category) equal d's fields; otherwise it inserts exactly one new
\* definition with a new id, previous_version d and d's original_version,
\* leaves d as it was, and returns (new id, true).
C34_UpdateDefinition ==
    [][\A w \in Writers :
          DefinitionReturns(w) =>
             LET d == proc[w].defloc
             IN /\ d \in DOMAIN definitions
                /\ IF GivenFields(proc[w]) = definitions[d].fields
                   THEN /\ proc'[w].defloc = d
                        /\ proc'[w].is_updated = FALSE
                        /\ proc[w].pc = "get_definition"
                        /\ definitions' = definitions
                   ELSE /\ proc[w].pc = "insert_definition"
                        /\ proc'[w].is_updated = TRUE
                        /\ \E new_id \in DOMAIN definitions' \ DOMAIN definitions :
                              /\ DOMAIN definitions' = DOMAIN definitions \cup {new_id}
                              /\ proc'[w].defloc = new_id
                              /\ definitions'[new_id]._id = new_id
                              /\ definitions'[new_id].fields = GivenFields(proc[w])
                              /\ definitions'[new_id].category = definitions[d].category
                              /\ definitions'[new_id].edit_info.previous_version = d
                              /\ definitions'[new_id].edit_info.original_version
                                    = definitions[d].edit_info.original_version
                        /\ \A e \in DOMAIN definitions : definitions'[e] = definitions[e]
    ]_vars

\* An update of a definition that was itself a later version has inserted
\* its successor: the original_version is not the predecessor's id.
C34_Witness ==
    \E w \in Writers :
       /\ Ended(w)
       /\ proc[w].op = "update_item"
       /\ proc[w].out.kind = "ok"
       /\ proc[w].is_updated = TRUE
       /\ proc[w].defloc \in DOMAIN definitions
       /\ proc[w].defloc \notin DOMAIN proc[w].pre.definitions
       /\ LET new == definitions[proc[w].defloc]
          IN /\ new.edit_info.previous_version \in DOMAIN definitions
             /\ new.edit_info.original_version # new.edit_info.previous_version
             /\ new.edit_info.original_version # new._id

\* The stored structures made from version v.
SuccessorsOf(v) == {s \in DOMAIN structures : structures[s].previous_version = v}

RECURSIVE WithinLevels(_, _)
\* The versions at most n levels below the versions in from, those included.
WithinLevels(from, n) ==
    IF n = 0 \/ from = {} THEN from
    ELSE from \cup WithinLevels(UNION {SuccessorsOf(v) : v \in from}, n - 1)

\* The result lists under v exactly the structures made from v, each once
\* and by its own id.
ListsSuccessors(result, v) ==
    LET listed == IF v \in DOMAIN result THEN result[v] ELSE EmptyDict
    IN /\ DOMAIN listed = SuccessorsOf(v)
       /\ \A s \in DOMAIN listed : listed[s] = 1

\* C35: the result of get_course_successors(locator, depth), depth >= 1,
\* lists, for the starting structure and for every structure within
\* depth - 1 levels below it, exactly the stored structures whose
\* previous_version is that structure, each under its own id.
C35_SuccessorsListed ==
    \A w \in Writers :
       (Ended(w) /\ proc[w].op = "get_course_successors" /\ proc[w].out.kind = "ok") =>
          \A v \in WithinLevels({proc[w].guid}, proc[w].args.depth - 1) :
             ListsSuccessors(proc[w].new_structure, v)

\* C35 for the first level: the successors of the starting structure are
\* listed each under its own id.
C35_DirectSuccessors ==
    \A w \in Writers :
       (Ended(w) /\ proc[w].op = "get_course_successors" /\ proc[w].out.kind = "ok") =>
          ListsSuccessors(proc[w].new_structure, proc[w].guid)

\* The request of w is a create_item that continues a version and has
\* written the structure (and cleared the cache).
ContinuedWrite(w) ==
    /\ proc[w].pc # "idle"
    /\ proc[w].op = "create_item"
    /\ proc[w].args.continue_version
    /\ proc[w].cache_step \in {"cleared", "loaded"}

\* The blocks the write of p added to the structure it continued.
AddedBlocks(p) ==
    DOMAIN p.new_structure.blocks \ DOMAIN p.pre.structures[p.new_structure._id].blocks

\* C36: after create_item with continue_version=True has written the
\* structure, the cache of the calling thread holds no entry for that
\* structure id made of its content before the write: the entry, if any,
\* is the stored structure with the added block, and so is the system
\* every later get_item of that thread reads that structure id through.
C36_NoStaleCacheEntry ==
    \A w \in Writers :
       /\ ContinuedWrite(w) =>
             LET guid == proc[w].new_structure._id
             IN /\ AddedBlocks(proc[w]) # {}
                /\ AddedBlocks(proc[w]) \subseteq DOMAIN structures[guid].blocks
                /\ guid \in DOMAIN proc[w].course_cache =>
                      proc[w].course_cache[guid] = structures[guid]
       /\ (proc[w].pc = "done" /\ proc[w].op = "get_item" /\ proc[w].out.kind = "ok") =>
             proc[w].system = structures[proc[w].out.id]

\* A create_item has continued a version the thread had cached before,
\* and has returned: the entry was stale after the write, and is not now.
C36_Witness ==
    \E w \in Writers :
       /\ ContinuedWrite(w)
       /\ Ended(w)
       /\ proc[w].out.kind = "ok"
       /\ LET guid == proc[w].new_structure._id
          IN /\ guid \in DOMAIN proc[w].cache_before
             /\ proc[w].cache_before[guid] # structures[guid]
             /\ guid \in DOMAIN proc[w].course_cache
             /\ proc[w].course_cache[guid] = structures[guid]

RECURSIVE VersionChain(_, _)
\* The stored structures on the previous_version chain that starts at
\* version v, v included; n bounds the walk.
VersionChain(v, n) ==
    IF v \notin DOMAIN structures \/ n = 0 THEN {}
    ELSE {v} \cup VersionChain(structures[v].previous_version, n - 1)

\* A write without force that made a new structure the head of its branch
\* and returned.
AdvancedHead(p) ==
    /\ p.op \in BlockWrites
    /\ ~p.args.force
    /\ ~p.args.continue_version
    /\ NamesBranch(p)
    /\ p.out.kind = "ok"
    /\ p.out.id \notin DOMAIN p.pre.structures

\* C37: among writers without force to one branch, interleaved in any
\* order, the structure a writer made the head of the branch is the head
\* now or lies on the previous_version chain of the head.
C37_NoEditDropped ==
    (\A v \in Writers : proc[v].pc # "idle" => (proc[v].op \in BlockWrites /\ ~proc[v].args.force))
    => \A w \in Writers :
          (Ended(w) /\ AdvancedHead(proc[w])) =>
             proc[w].out.id \in VersionChain(HeadNow(proc[w]), Cardinality(DOMAIN structures))

\* C37 for one writer at a time: the structure the writer made the head is
\* on the chain of the head while no other request has run since it read
\* the head.
C37_SequentialKept ==
    \A w \in Writers :
       (/\ Ended(w)
        /\ AdvancedHead(proc[w])
        /\ \A v \in Writers \ {w} : proc[v].pc = "idle")
       => proc[w].out.id \in VersionChain(HeadNow(proc[w]), Cardinality(DOMAIN structures))

\* The branch b of package p is in the index versions_after as it is in
\* versions_before: absent in both, or at the same head.
SameHead(p, b, before, after) ==
    /\ p \in DOMAIN after
    /\ (b \in DOMAIN before[p].versions) <=> (b \in DOMAIN after[p].versions)
    /\ b \in DOMAIN before[p].versions => after[p].versions[b] = before[p].versions[b]

\* Writer w moves the head of its branch in this step.
MovesHead(w) ==
    /\ proc[w].pc = "update_head"
    /\ proc'[w].pc # "update_head"
    /\ Target(proc[w]).package_id \in DOMAIN indexes

\* C38: the step in which a write moves the head of branch b of package p
\* leaves the head of every other branch of p as it is, also when another
\* writer has moved that other branch since the write read the index.
C38_OtherBranchesKept ==
    [][\A w \in Writers :
          MovesHead(w) =>
             \A b \in {"draft", "published"} \ {HeadBranch(proc[w])} :
                SameHead(Target(proc[w]).package_id, b, indexes, indexes')
    ]_vars

\* C38 without the race: the other branches are kept when the index is
\* still as the write read it.
C38_KeptWhenIndexUnchanged ==
    [][\A w \in Writers :
          (MovesHead(w) /\ indexes[Target(proc[w]).package_id] = proc[w].index_entry) =>
             \A b \in {"draft", "published"} \ {HeadBranch(proc[w])} :
                SameHead(Target(proc[w]).package_id, b, indexes, indexes')
    ]_vars

\* The blocks read through the head of branch b of package p in the stored
\* documents db; none when the head names no structure.
HeadBlocks(db, p, b) ==
    IF db.indexes[p].versions[b] \in DOMAIN db.structures
    THEN db.structures[db.indexes[p].versions[b]].blocks
    ELSE EmptyDict

\* The request p is a write addressed to a course: create_course, or
\* create_item, update_item or delete_item through a locator with a package.
AddressedWrite(p) ==
    \/ p.op = "create_course"
    \/ p.op \in BlockWrites /\ p.args.locator.package_id # NoName

\* The courses other than the one the write p is addressed to, as they
\* were at the call.
OtherCourses(p) ==
    DOMAIN p.pre.indexes \ (IF p.op = "create_course" THEN {} ELSE {p.args.locator.package_id})

\* C39: a write addressed to course A (create_course, clones included,
\* create_item, continued or not, update_item, delete_item) leaves the
\* blocks of every head structure of every other course B as they were.
C39_OtherCoursesUntouched ==
    \A w \in Writers :
       (proc[w].pc # "idle" /\ AddressedWrite(proc[w])) =>
          \A B \in OtherCourses(proc[w]) :
             /\ B \in DOMAIN indexes
             /\ DOMAIN indexes[B].versions = DOMAIN proc[w].pre.indexes[B].versions
             /\ \A b \in DOMAIN indexes[B].versions :
                   HeadBlocks(DbSnapshot, B, b) = HeadBlocks(proc[w].pre, B, b)

\* C39 for the writes that make a new version: those that do not continue
\* one.
C39_UntouchedUnlessContinued ==
    \A w \in Writers :
       (/\ proc[w].pc # "idle"
        /\ AddressedWrite(proc[w])
        /\ (proc[w].op \in BlockWrites => ~proc[w].args.continue_version)) =>
          \A B \in OtherCourses(proc[w]) :
             /\ B \in DOMAIN indexes
             /\ DOMAIN indexes[B].versions = DOMAIN proc[w].pre.indexes[B].versions
             /\ \A b \in DOMAIN indexes[B].versions :
                   HeadBlocks(DbSnapshot, B, b) = HeadBlocks(proc[w].pre, B, b)

\* C40: get_courses(branch) returns exactly one course descriptor for each
\* index whose versions have the branch, each labelled with the package id
\* of that index, also when several indexes have the same head.
C40_OneDescriptorPerIndex ==
    \A w \in Writers :
       (Ended(w) /\ proc[w].op = "get_courses" /\ proc[w].out.kind = "ok") =>
          LET result == proc[w].new_structure
              matching == {p \in DOMAIN indexes :
                              proc[w].args.branch \in DOMAIN indexes[p].versions}
          IN /\ {result[v] : v \in DOMAIN result} = matching
             /\ Cardinality(DOMAIN result) = Cardinality(matching)

\* C40 when every index has a head of its own that is stored.
C40_DistinctHeads ==
    \A w \in Writers :
       (Ended(w) /\ proc[w].op = "get_courses" /\ proc[w].out.kind = "ok") =>
          LET result == proc[w].new_structure
              branch == proc[w].args.branch
              matching == {p \in DOMAIN indexes : branch \in DOMAIN indexes[p].versions}
          IN (/\ \A p \in matching : indexes[p].versions[branch] \in DOMAIN structures
              /\ \A p, q \in matching :
                    indexes[p].versions[branch] = indexes[q].versions[branch] => p = q)
             => /\ {result[v] : v \in DOMAIN result} = matching
                /\ Cardinality(DOMAIN result) = Cardinality(matching)

====
